---- MODULE Spec2Model ----
(***************************************************************************)
(* A model of the TCL formatter of src/src/formatter.py: the syntax        *)
(* validator, the indentation, list expansion and alignment engines and    *)
(* the orchestration in TCLFormatter.format_file.                          *)
(*                                                                         *)
(* A line of text is a sequence of one-character strings.  Positions in a  *)
(* line are 1-based here and 0-based in the Python source; the `position`  *)
(* field of a stack frame keeps the source's 0-based value.                *)
(***************************************************************************)
EXTENDS Integers, Sequences, FiniteSets, TLC

VARIABLES
    align_set,      \* TCLFormatter.align_set
    expand_lists,   \* TCLFormatter.expand_lists
    strict_indent,  \* TCLFormatter.strict_indent
    file,           \* the content of the input file, as physical lines
    pc,             \* the position of format_file / of the direct engine call
    lines,          \* format_file's local `lines`
    errors,         \* format_file's local `errors`
    formatted,      \* _format_lines' local `formatted`
    passes,         \* the engine methods called so far, with their arguments
    output_file,    \* the content of <stem>_formatted<ext>, or None
    error_log,      \* the content of errors.log, or None
    result,         \* the returned FormattingResult / the engine call's return
    threads,        \* concurrent invocations: each one's formatter and locals
    validators,     \* the SyntaxValidator objects: stack and errors of each
    selected_file_path,     \* TCLFormatterUI.selected_file_path
    formatting_options,     \* TCLFormatterUI.formatting_options
    operation_in_progress,  \* TCLFormatterUI.operation_in_progress
    worker,                 \* TCLFormatterUI.worker
    format_button,          \* whether the format button is enabled
    status_output,          \* the message in the status display
    workers,                \* the FormatterWorker objects created so far
    signals                 \* emissions of `finished` not yet delivered

formatter_vars ==
    << align_set, expand_lists, strict_indent, file, pc, lines, errors,
       formatted, passes, output_file, error_log, result >>

thread_vars == << threads, validators >>

ui_vars ==
    << selected_file_path, formatting_options, operation_in_progress, worker,
       format_button, status_output, workers, signals >>

vars == << formatter_vars, thread_vars, ui_vars >>

\* a path-valued Optional is the path or None; any other Optional[T] is
\* Nothing or Some(value)
None == "None"
Nothing == <<>>
Some(x) == <<x>>

\* no invocation is running beside the one of format_file
NoThreads ==
    /\ threads = <<>>
    /\ validators = <<>>

\* TCLFormatterUI.__init__ and setup_ui: nothing selected, the options off,
\* the format button disabled, no worker
NewWindow ==
    /\ selected_file_path = None
    /\ formatting_options =
           [align_set |-> FALSE, expand_lists |-> FALSE, strict_indent |-> FALSE]
    /\ operation_in_progress = FALSE
    /\ worker = Nothing
    /\ format_button = FALSE
    /\ status_output = <<>>
    /\ workers = <<>>
    /\ signals = <<>>

\* no format_file call of this thread and no direct engine call
NoFormatter ==
    /\ align_set = FALSE
    /\ expand_lists = FALSE
    /\ strict_indent = FALSE
    /\ file = <<>>
    /\ pc = "idle"
    /\ lines = <<>>
    /\ errors = <<>>
    /\ formatted = <<>>
    /\ passes = <<>>
    /\ output_file = Nothing
    /\ error_log = Nothing
    /\ result = Nothing

(***************************************************************************)
(* Characters and Python's string methods                                  *)
(***************************************************************************)
SP    == " "
TAB   == "\t"
BS    == "\\"
QUOTE == "\""
LB    == "{"
RB    == "}"
HASH  == "#"

IsSpace(c) == c \in {SP, TAB}

Max2(a, b) == IF a >= b THEN a ELSE b

\* str * n : a negative count gives the empty string
Rep(c, n) == [i \in 1..Max2(0, n) |-> c]

\* the number of leading whitespace characters: len(s) - len(s.lstrip())
LeadWs(s) ==
    IF \A i \in 1..Len(s) : IsSpace(s[i]) THEN Len(s)
    ELSE (CHOOSE i \in 1..Len(s) :
              ~IsSpace(s[i]) /\ \A j \in 1..(i-1) : IsSpace(s[j])) - 1

\* the number of trailing whitespace characters
TrailWs(s) ==
    IF \A i \in 1..Len(s) : IsSpace(s[i]) THEN Len(s)
    ELSE Len(s) - (CHOOSE i \in 1..Len(s) :
              ~IsSpace(s[i]) /\ \A j \in (i+1)..Len(s) : IsSpace(s[j]))

LStrip(s) == SubSeq(s, LeadWs(s) + 1, Len(s))
RStrip(s) == SubSeq(s, 1, Len(s) - TrailWs(s))
Strip(s)  == RStrip(LStrip(s))

StartsWith(s, p) == Len(s) >= Len(p) /\ SubSeq(s, 1, Len(p)) = p
EndsWith(s, p)   == Len(s) >= Len(p) /\ SubSeq(s, Len(s) - Len(p) + 1, Len(s)) = p

\* s[:-1]
DropLast(s) == SubSeq(s, 1, Len(s) - 1)

\* s[n:]
From(s, n) == SubSeq(s, n + 1, Len(s))

(***************************************************************************)
(* Loops.  The state of a loop is a record of the locals it updates, among *)
(* them the 0-based index i of the element it is at; Body(st, xs) is one   *)
(* pass through the loop's body and leaves i at the next element to visit  *)
(* (i + 1, or further when the body itself advances the index).            *)
(* Iterate(Body, st, xs, lo, hi) runs the body for the indices lo..hi in   *)
(* increasing order, skipping an index the body has already moved past;    *)
(* the range is split in halves only to keep the evaluation shallow, and   *)
(* the state after the first half is bound as a value (the one member of a *)
(* singleton set) so that it is computed once.                             *)
(***************************************************************************)
RECURSIVE Iterate(_, _, _, _, _)
Iterate(Body(_, _), st, xs, lo, hi) ==
    IF lo > hi THEN st
    ELSE IF lo = hi THEN (IF st.i = lo THEN Body(st, xs) ELSE st)
    ELSE CHOOSE last \in
             { Iterate(Body, first, xs, ((lo + hi) \div 2) + 1, hi) :
                   first \in { Iterate(Body, st, xs, lo, (lo + hi) \div 2) } } : TRUE

\* while i < len(xs): body     /     for i, x in enumerate(xs): body
While(Body(_, _), st, xs) ==
    CHOOSE last \in { Iterate(Body, first, xs, 0, Len(xs) - 1) : first \in {st} } : TRUE

(***************************************************************************)
(* SyntaxValidator                                                         *)
(***************************************************************************)
\* SyntaxError(line_number, message, error_type); a message that the source
\* formats with a line number is the pair of its text and that number
SyntaxError(line_number, message, error_type) ==
    [line_number |-> line_number, message |-> message, error_type |-> error_type]

StackFrame(char, line_number, position) ==
    [char |-> char, line_number |-> line_number, position |-> position]

\* the validator's fields after validate() has reset them
EmptyValidator == [stack |-> <<>>, errors |-> <<>>]

\* _handle_line_continuations, inner loop: join while the line ends in a backslash
RECURSIVE JoinContinuations(_, _, _)
JoinContinuations(ls, line, i) ==
    IF i < Len(ls) - 1 /\ EndsWith(RStrip(line), <<BS>>)
    THEN JoinContinuations(ls, DropLast(RStrip(line)) \o ls[i + 2], i + 1)
    ELSE [line |-> line, i |-> i]

\* _handle_line_continuations, the body of the outer loop
ContinuationsBody(st, ls) ==
    LET j == JoinContinuations(ls, ls[st.i + 1], st.i)
    IN  [result |-> Append(st.result, [line_num |-> st.i + 1, line |-> j.line]),
         i |-> j.i + 1]

HandleLineContinuations(ls) ==
    While(ContinuationsBody, [result |-> <<>>, i |-> 0], ls).result

\* a push that records the 0-based index of the line instead of its number
PushZeroBased(stack, char, line_num, position) ==
    Append(stack, StackFrame(char, line_num - 1, position))

Push(stack, char, line_num, position) ==
    Append(stack, StackFrame(char, line_num, position))

\* a pop that leaves the frame on the stack
PopKeepsFrame(stack, char, line_num, position) ==
    [stack |-> stack, error |-> Nothing]

\* a _pop that reports a mismatch and leaves the wrong frame popped
PopDiscardsFrame(stack, char, line_num, position) ==
    IF stack = <<>>
    THEN [stack |-> stack,
          error |-> Some(SyntaxError(line_num,
                        <<"Unexpected closing", char, "with no matching opening">>,
                        IF char = RB THEN "brace" ELSE "quote"))]
    ELSE IF char = RB /\ stack[Len(stack)].char # LB
    THEN [stack |-> DropLast(stack),
          error |-> Some(SyntaxError(line_num,
              <<"Unexpected closing brace, expected closing quote from line",
                stack[Len(stack)].line_number>>, "brace"))]
    ELSE IF char = QUOTE /\ stack[Len(stack)].char # QUOTE
    THEN [stack |-> DropLast(stack),
          error |-> Some(SyntaxError(line_num,
              <<"Unexpected closing quote, expected closing brace from line",
                stack[Len(stack)].line_number>>, "quote"))]
    ELSE [stack |-> DropLast(stack), error |-> Nothing]

\* _pop: the stack afterwards and the returned Optional[SyntaxError]
Pop(stack, char, line_num, position) ==
    IF stack = <<>>
    THEN [stack |-> stack,
          error |-> Some(SyntaxError(line_num,
                        <<"Unexpected closing", char, "with no matching opening">>,
                        IF char = RB THEN "brace" ELSE "quote"))]
    ELSE LET frame == stack[Len(stack)]
             popped == DropLast(stack)
         IN  IF char = RB /\ frame.char # LB
             THEN [stack |-> Append(popped, frame),
                   error |-> Some(SyntaxError(line_num,
                       <<"Unexpected closing brace, expected closing quote from line",
                         frame.line_number>>, "brace"))]
             ELSE IF char = QUOTE /\ frame.char # QUOTE
             THEN [stack |-> Append(popped, frame),
                   error |-> Some(SyntaxError(line_num,
                       <<"Unexpected closing quote, expected closing brace from line",
                         frame.line_number>>, "quote"))]
             ELSE [stack |-> popped, error |-> Nothing]

\* error = self._pop(...); if error: self.errors.append(error)
PopAndRecord(v, char, line_num, position) ==
    LET r == Pop(v.stack, char, line_num, position)
    IN  [v EXCEPT !.stack = r.stack,
                  !.errors = IF r.error = Nothing THEN v.errors
                             ELSE Append(v.errors, r.error[1])]

\* a loop body that reads the character after a backslash like any other
ScanBodyIgnoringEscapes(v, line) ==
    IF line[v.i + 1] = QUOTE
    THEN IF v.in_string
         THEN [PopAndRecord(v, QUOTE, v.line_num, v.i)
                 EXCEPT !.in_string = FALSE, !.i = v.i + 1]
         ELSE [v EXCEPT !.stack = Push(v.stack, QUOTE, v.line_num, v.i),
                        !.in_string = TRUE, !.i = v.i + 1]
    ELSE IF ~v.in_string /\ line[v.i + 1] = LB
    THEN [v EXCEPT !.stack = Push(v.stack, LB, v.line_num, v.i), !.i = v.i + 1]
    ELSE IF ~v.in_string /\ line[v.i + 1] = RB
    THEN [PopAndRecord(v, RB, v.line_num, v.i) EXCEPT !.i = v.i + 1]
    ELSE [v EXCEPT !.i = v.i + 1]

\* the body of the while loop of _process_line: v holds the validator's
\* stack and errors and the locals in_string, i and line_num
ScanBody(v, line) ==
    LET char == line[v.i + 1]
    IN  IF char = BS /\ v.i + 1 < Len(line)
        THEN [v EXCEPT !.i = v.i + 2]
        ELSE IF char = QUOTE
        THEN IF v.in_string
             THEN [PopAndRecord(v, QUOTE, v.line_num, v.i)
                     EXCEPT !.in_string = FALSE, !.i = v.i + 1]
             ELSE [v EXCEPT !.stack = Push(v.stack, QUOTE, v.line_num, v.i),
                            !.in_string = TRUE, !.i = v.i + 1]
        ELSE IF ~v.in_string /\ char = LB
        THEN [v EXCEPT !.stack = Push(v.stack, LB, v.line_num, v.i), !.i = v.i + 1]
        ELSE IF ~v.in_string /\ char = RB
        THEN [PopAndRecord(v, RB, v.line_num, v.i) EXCEPT !.i = v.i + 1]
        ELSE [v EXCEPT !.i = v.i + 1]

\* _process_line on the validator fields v: the fields afterwards
ProcessLine(v, line, line_num) ==
    IF StartsWith(Strip(line), <<HASH>>) THEN v
    ELSE LET scanned == While(ScanBody,
                              [stack |-> v.stack, errors |-> v.errors,
                               in_string |-> FALSE, i |-> 0, line_num |-> line_num],
                              line)
         IN  [stack |-> scanned.stack, errors |-> scanned.errors]

\* for line_num, line in processed_lines: self._process_line(line, line_num)
ProcessLinesBody(st, processed) ==
    LET v == ProcessLine([stack |-> st.stack, errors |-> st.errors],
                         processed[st.i + 1].line, processed[st.i + 1].line_num)
    IN  [stack |-> v.stack, errors |-> v.errors, i |-> st.i + 1]

ProcessLines(v, processed) ==
    LET done == While(ProcessLinesBody,
                      [stack |-> v.stack, errors |-> v.errors, i |-> 0], processed)
    IN  [stack |-> done.stack, errors |-> done.errors]

FrameError(frame) ==
    IF frame.char = LB
    THEN SyntaxError(frame.line_number, <<"Unmatched opening brace">>, "brace")
    ELSE SyntaxError(frame.line_number, <<"Unmatched opening quote">>, "quote")

\* a check that reports the frames left from the innermost outwards
CheckRemainingStackInnermostFirst(v) ==
    [v EXCEPT !.errors =
        v.errors \o [k \in 1..Len(v.stack) |-> FrameError(v.stack[Len(v.stack) + 1 - k])]]

\* _check_remaining_stack on the validator fields v
CheckRemainingStack(v) ==
    [v EXCEPT !.errors = v.errors \o [k \in 1..Len(v.stack) |-> FrameError(v.stack[k])]]

\* the validator's fields when validate() returns
ValidatorRun(ls) ==
    CheckRemainingStack(ProcessLines(EmptyValidator, HandleLineContinuations(ls)))

Validate(ls) == ValidatorRun(ls).errors

(***************************************************************************)
(* IndentationEngine                                                       *)
(***************************************************************************)
INDENT_SIZE == 2

BLOCK_KEYWORDS ==
    { <<"i","f">>, <<"e","l","s","e">>, <<"f","o","r","e","a","c","h">>,
      <<"w","h","i","l","e">>, <<"s","w","i","t","c","h">>, <<"p","r","o","c">>,
      <<"n","a","m","e","s","p","a","c","e">> }

common_commands ==
    { <<"s","e","t">>, <<"p","u","t","s">>, <<"r","e","t","u","r","n">>,
      <<"s","o","u","r","c","e">>, <<"p","a","c","k","a","g","e">>,
      <<"n","a","m","e","s","p","a","c","e">> }

\* line.split()[0] if line.split() else ''
FirstWord(line) ==
    LET t == LStrip(line)
    IN  IF \E i \in 1..Len(t) : IsSpace(t[i])
        THEN SubSeq(t, 1, (CHOOSE i \in 1..Len(t) :
                              IsSpace(t[i]) /\ \A j \in 1..(i-1) : ~IsSpace(t[j])) - 1)
        ELSE t

\* the heuristic with its last answer turned round: a line that starts with
\* no comment mark, brace, block keyword or common command continues
IsContinuationLineHeuristic(line) ==
    IF StartsWith(line, <<HASH>>) THEN FALSE
    ELSE IF StartsWith(line, <<LB>>) \/ StartsWith(line, <<RB>>) THEN FALSE
    ELSE IF FirstWord(line) \in BLOCK_KEYWORDS THEN FALSE
    ELSE IF FirstWord(line) \in common_commands THEN FALSE
    ELSE TRUE
IsContinuationLine(line) ==
    IF StartsWith(line, <<HASH>>) THEN FALSE
    ELSE IF StartsWith(line, <<LB>>) \/ StartsWith(line, <<RB>>) THEN FALSE
    ELSE IF FirstWord(line) \in BLOCK_KEYWORDS THEN FALSE
    ELSE IF FirstWord(line) \in common_commands THEN FALSE
    ELSE FALSE

CalculateIndentLevel(line, current_level, in_string, strict_mode) ==
    IF in_string THEN current_level
    ELSE IF StartsWith(line, <<RB>>) THEN Max2(0, current_level - 1)
    ELSE IF strict_mode /\ IsContinuationLine(line) THEN current_level + 1
    ELSE current_level

\* the body of the counting loop of _update_level_after_line
CountBody(st, line) ==
    LET char == line[st.i + 1]
        flipped == IF char = QUOTE THEN ~st.in_line_string ELSE st.in_line_string
    IN  IF char = BS /\ st.i + 1 < Len(line)
        THEN [st EXCEPT !.i = st.i + 2]
        ELSE [open_braces |-> IF ~flipped /\ char = LB THEN st.open_braces + 1
                              ELSE st.open_braces,
              close_braces |-> IF ~flipped /\ char = RB THEN st.close_braces + 1
                               ELSE st.close_braces,
              in_line_string |-> flipped,
              i |-> st.i + 1]

\* net_change = open_braces - close_braces
NetChange(line) ==
    LET counted == While(CountBody,
                         [open_braces |-> 0, close_braces |-> 0,
                          in_line_string |-> FALSE, i |-> 0], line)
    IN  counted.open_braces - counted.close_braces

\* an update that does not add back the level a leading `}` took off
UpdateLevelAfterLineUncorrected(line, line_level, in_string) ==
    IF in_string THEN line_level ELSE line_level + NetChange(line)

\* _update_level_after_line
UpdateLevelAfterLine(line, line_level, in_string) ==
    IF in_string THEN line_level
    ELSE IF StartsWith(line, <<RB>>)
         THEN line_level + NetChange(line) + 1
         ELSE line_level + NetChange(line)

\* the body of the counting loop of _update_string_state
QuoteBody(st, line) ==
    IF line[st.i + 1] = BS /\ st.i + 1 < Len(line)
    THEN [st EXCEPT !.i = st.i + 2]
    ELSE [quote_count |-> IF line[st.i + 1] = QUOTE THEN st.quote_count + 1
                          ELSE st.quote_count,
          i |-> st.i + 1]

\* for _ in range(quote_count): in_string = not in_string
UpdateStringState(line, in_string) ==
    IF While(QuoteBody, [quote_count |-> 0, i |-> 0], line).quote_count % 2 = 1
    THEN ~in_string
    ELSE in_string

\* a loop body that writes comment lines at the current level as well
IndentBodyIndentingComments(st, ls) ==
    LET line == ls[st.i + 1]
        stripped == Strip(line)
        line_level == CalculateIndentLevel(stripped, st.current_level, st.in_string,
                                           st.strict_mode)
        next_level == UpdateLevelAfterLine(stripped, line_level, st.in_string)
        next_string == UpdateStringState(stripped, st.in_string)
    IN  IF stripped = <<>>
        THEN [st EXCEPT !.steps = Append(st.steps,
                            [out |-> line, written |-> FALSE,
                             line_level |-> st.current_level,
                             current_level |-> st.current_level,
                             in_string |-> st.in_string]),
                        !.i = st.i + 1]
        ELSE [st EXCEPT !.steps = Append(st.steps,
                            [out |-> Rep(SP, line_level * INDENT_SIZE) \o stripped,
                             written |-> TRUE, line_level |-> line_level,
                             current_level |-> next_level,
                             in_string |-> next_string]),
                        !.current_level = next_level,
                        !.in_string = next_string,
                        !.i = st.i + 1]

\* the body of the for loop of apply_indentation: steps holds, for each
\* line so far, the line appended to result, whether it was rewritten, the
\* level it was written at and the locals current_level and in_string after it
IndentBody(st, ls) ==
    LET line == ls[st.i + 1]
        stripped == Strip(line)
        line_level == CalculateIndentLevel(stripped, st.current_level, st.in_string,
                                           st.strict_mode)
        next_level == UpdateLevelAfterLine(stripped, line_level, st.in_string)
        next_string == UpdateStringState(stripped, st.in_string)
    IN  IF stripped = <<>> \/ StartsWith(stripped, <<HASH>>)
        THEN [st EXCEPT !.steps = Append(st.steps,
                            [out |-> line, written |-> FALSE,
                             line_level |-> st.current_level,
                             current_level |-> st.current_level,
                             in_string |-> st.in_string]),
                        !.i = st.i + 1]
        ELSE [st EXCEPT !.steps = Append(st.steps,
                            [out |-> Rep(SP, line_level * INDENT_SIZE) \o stripped,
                             written |-> TRUE, line_level |-> line_level,
                             current_level |-> next_level,
                             in_string |-> next_string]),
                        !.current_level = next_level,
                        !.in_string = next_string,
                        !.i = st.i + 1]

IndentSteps(ls, strict_mode) ==
    While(IndentBody,
          [steps |-> <<>>, current_level |-> 0, in_string |-> FALSE,
           strict_mode |-> strict_mode, i |-> 0], ls).steps

ApplyIndentation(ls, strict_mode) ==
    IF ls = <<>> THEN ls
    ELSE LET steps == IndentSteps(ls, strict_mode)
         IN  [k \in 1..Len(ls) |-> steps[k].out]

(***************************************************************************)
(* ListExpansionEngine                                                     *)
(***************************************************************************)
LIST_LENGTH_THRESHOLD == 80

Contains(s, c) == \E i \in 1..Len(s) : s[i] = c

\* s.find(c) and s.rfind(c): 0-based, -1 when absent
Find(s, c) ==
    IF Contains(s, c)
    THEN (CHOOSE i \in 1..Len(s) : s[i] = c /\ \A j \in 1..(i-1) : s[j] # c) - 1
    ELSE -1

RFind(s, c) ==
    IF Contains(s, c)
    THEN (CHOOSE i \in 1..Len(s) : s[i] = c /\ \A j \in (i+1)..Len(s) : s[j] # c) - 1
    ELSE -1

\* stripped[open_brace_idx + 1:close_brace_idx].strip()
ListContent(stripped) ==
    Strip(SubSeq(stripped, Find(stripped, LB) + 2, RFind(stripped, RB)))

\* a test that only expands lines longer than the threshold
ShouldExpandListOver(line) ==
    /\ Len(line) > LIST_LENGTH_THRESHOLD
    /\ ~StartsWith(Strip(line), <<HASH>>)
    /\ Contains(Strip(line), LB)
    /\ RFind(Strip(line), RB) > Find(Strip(line), LB)
    /\ ListContent(Strip(line)) # <<>>
    /\ (Contains(ListContent(Strip(line)), SP) \/ Contains(ListContent(Strip(line)), TAB))

ShouldExpandList(line) ==
    LET stripped == Strip(line)
    IN  IF Len(line) < LIST_LENGTH_THRESHOLD THEN FALSE
        ELSE IF StartsWith(stripped, <<HASH>>) THEN FALSE
        ELSE IF ~Contains(stripped, LB) \/ ~Contains(stripped, RB) THEN FALSE
        ELSE IF RFind(stripped, RB) <= Find(stripped, LB) THEN FALSE
        ELSE IF ListContent(stripped) = <<>> THEN FALSE
        ELSE IF Contains(ListContent(stripped), SP) \/ Contains(ListContent(stripped), TAB)
        THEN TRUE
        ELSE FALSE

\* while i < len(list_content) and list_content[i] in ' \t': i += 1
SkipSpaces(c, i) ==
    IF \E j \in (i + 1)..Len(c) : ~IsSpace(c[j])
    THEN (CHOOSE j \in (i + 1)..Len(c) :
              ~IsSpace(c[j]) /\ \A k \in (i + 1)..(j - 1) : IsSpace(c[k])) - 1
    ELSE Len(c)

\* a tokenizer step that keeps an escaped character without its backslash
\* and otherwise reads every character as one of an item or a separator
ParseItemsBodyUnescaping(st, c) ==
    IF c[st.i + 1] = BS /\ st.i + 1 < Len(c)
    THEN [st EXCEPT !.current_item = Append(st.current_item, c[st.i + 2]),
                    !.i = st.i + 2]
    ELSE IF IsSpace(c[st.i + 1])
    THEN [st EXCEPT !.items = IF st.current_item # <<>>
                              THEN Append(st.items, st.current_item)
                              ELSE st.items,
                    !.current_item = <<>>,
                    !.i = st.i + 1]
    ELSE [st EXCEPT !.current_item = Append(st.current_item, c[st.i + 1]),
                    !.i = st.i + 1]

\* the body of the while loop of _parse_list_items
ParseItemsBody(st, c) ==
    LET char == c[st.i + 1]
    IN  IF char = BS /\ st.i + 1 < Len(c)
        THEN [st EXCEPT !.current_item = st.current_item \o <<char, c[st.i + 2]>>,
                        !.i = st.i + 2]
        ELSE IF char = QUOTE
        THEN [st EXCEPT !.in_string = ~st.in_string,
                        !.current_item = Append(st.current_item, char),
                        !.i = st.i + 1]
        ELSE IF ~st.in_string /\ char = LB
        THEN [st EXCEPT !.brace_depth = st.brace_depth + 1,
                        !.current_item = Append(st.current_item, char),
                        !.i = st.i + 1]
        ELSE IF ~st.in_string /\ char = RB
        THEN [st EXCEPT !.brace_depth = st.brace_depth - 1,
                        !.current_item = Append(st.current_item, char),
                        !.i = st.i + 1]
        ELSE IF ~st.in_string /\ st.brace_depth = 0 /\ IsSpace(char)
        THEN [st EXCEPT !.items = IF st.current_item # <<>>
                                  THEN Append(st.items, st.current_item)
                                  ELSE st.items,
                        !.current_item = <<>>,
                        !.i = SkipSpaces(c, st.i)]
        ELSE [st EXCEPT !.current_item = Append(st.current_item, char),
                        !.i = st.i + 1]

ParseListItems(list_content) ==
    LET parsed == While(ParseItemsBody,
                        [items |-> <<>>, current_item |-> <<>>, brace_depth |-> 0,
                         in_string |-> FALSE, i |-> 0], list_content)
    IN  IF parsed.current_item # <<>> THEN Append(parsed.items, parsed.current_item)
        ELSE parsed.items

\* an expansion that writes the items at the indentation of the line
ExpandListFlat(line) ==
    << SubSeq(line, 1, LeadWs(line))
           \o SubSeq(Strip(line), 1, Find(Strip(line), LB) + 1) >>
    \o [k \in 1..Len(ParseListItems(ListContent(Strip(line)))) |->
           SubSeq(line, 1, LeadWs(line)) \o ParseListItems(ListContent(Strip(line)))[k]]
    \o << SubSeq(line, 1, LeadWs(line)) \o <<RB>>
           \o From(Strip(line), RFind(Strip(line), RB) + 1) >>

ExpandList(line) ==
    LET indent == SubSeq(line, 1, LeadWs(line))
        stripped == Strip(line)
        before_list == SubSeq(stripped, 1, Find(stripped, LB) + 1)
        after_list == From(stripped, RFind(stripped, RB) + 1)
        items == ParseListItems(ListContent(stripped))
    IN  <<indent \o before_list>>
        \o [k \in 1..Len(items) |-> indent \o Rep(SP, INDENT_SIZE) \o items[k]]
        \o <<indent \o <<RB>> \o after_list>>

\* the body of the for loop of expand_long_lists
ExpandBody(st, ls) ==
    [result |-> IF ShouldExpandList(ls[st.i + 1])
                THEN st.result \o ExpandList(ls[st.i + 1])
                ELSE Append(st.result, ls[st.i + 1]),
     i |-> st.i + 1]

ExpandLongLists(ls) ==
    IF ls = <<>> THEN ls
    ELSE While(ExpandBody, [result |-> <<>>, i |-> 0], ls).result

(***************************************************************************)
(* AlignmentEngine                                                         *)
(***************************************************************************)
SetSpace == <<"s", "e", "t", SP>>

\* line.startswith('set ') and line.split(None, 1)[0] == 'set'
IsSetCommand(line) ==
    IF ~StartsWith(line, SetSpace) THEN FALSE
    ELSE FirstWord(line) = <<"s", "e", "t">>

\* _parse_set_command: Nothing, or Some of the dictionary
ParseSetCommand(line) ==
    LET indent == SubSeq(line, 1, LeadWs(line))
        stripped == Strip(line)
        remainder == From(stripped, 4)
        \* remainder.split(None, 1)
        variable == FirstWord(remainder)
        value == LStrip(From(LStrip(remainder), Len(variable)))
    IN  IF ~StartsWith(stripped, SetSpace) THEN Nothing
        ELSE IF variable = <<>> \/ value = <<>> THEN Nothing
        ELSE Some([indent |-> indent, variable |-> variable, value |-> value])

\* if len(current_block) > 1: blocks.append(current_block)
Flushed(st) ==
    IF Len(st.current_block) > 1 THEN Append(st.blocks, st.current_block)
    ELSE st.blocks

\* the body of the for loop of _find_set_blocks, with the locals blocks,
\* current_block and current_indent (None: -1); a block holds the source's
\* 0-based line indices
FindBlocksBody(st, ls) ==
    LET line == ls[st.i + 1]
        stripped == Strip(line)
        indent == LeadWs(line)
    IN  IF stripped = <<>>
        THEN [st EXCEPT !.i = st.i + 1]
        ELSE IF StartsWith(stripped, <<HASH>>)
        THEN [blocks |-> Flushed(st), current_block |-> <<>>, current_indent |-> -1,
              i |-> st.i + 1]
        ELSE IF IsSetCommand(stripped)
        THEN IF st.current_indent = -1 \/ indent = st.current_indent
             THEN [st EXCEPT !.current_block = Append(st.current_block, st.i),
                             !.current_indent = indent,
                             !.i = st.i + 1]
             ELSE [blocks |-> Flushed(st), current_block |-> <<st.i>>,
                   current_indent |-> indent, i |-> st.i + 1]
        ELSE [blocks |-> Flushed(st), current_block |-> <<>>, current_indent |-> -1,
              i |-> st.i + 1]

\* a search that returns at the end of the loop without the last block
FindSetBlocksUnflushed(ls) ==
    While(FindBlocksBody,
          [blocks |-> <<>>, current_block |-> <<>>, current_indent |-> -1,
           i |-> 0], ls).blocks
FindSetBlocks(ls) ==
    Flushed(While(FindBlocksBody,
                  [blocks |-> <<>>, current_block |-> <<>>, current_indent |-> -1,
                   i |-> 0], ls))

\* for line in set_lines: parsed = ...; if parsed: parsed_commands.append(parsed)
ParsedBody(st, set_lines) ==
    [parsed_commands |-> st.parsed_commands \o ParseSetCommand(set_lines[st.i + 1]),
     i |-> st.i + 1]

ParsedCommands(set_lines) ==
    While(ParsedBody, [parsed_commands |-> <<>>, i |-> 0], set_lines).parsed_commands

\* a call's outcome: the exception raised (None: it returned) and the value
Returned(value) == [raised |-> None, value |-> value]
Raised(exception) == [raised |-> exception, value |-> <<>>]

\* an alignment that pads every name with one space, whatever the longest is
AlignedLineSingleSpace(cmd, max_var_length) ==
    cmd.indent \o SetSpace \o cmd.variable \o <<SP>> \o cmd.value

AlignedLine(cmd, max_var_length) ==
    cmd.indent \o SetSpace \o cmd.variable
        \o Rep(SP, (max_var_length - Len(cmd.variable)) + 1) \o cmd.value

\* _align_block: max() of an empty sequence raises ValueError
AlignBlock(ls, block_indices) ==
    LET set_lines == [k \in 1..Len(block_indices) |-> ls[block_indices[k] + 1]]
        parsed_commands == ParsedCommands(set_lines)
        lengths == { Len(parsed_commands[k].variable) : k \in 1..Len(parsed_commands) }
        max_var_length == CHOOSE m \in lengths : \A n \in lengths : m >= n
    IN  IF parsed_commands = <<>> THEN Raised("ValueError")
        ELSE Returned([k \in 1..Len(parsed_commands) |->
                          AlignedLine(parsed_commands[k], max_var_length)])

\* for i, line_idx in enumerate(block_indices): result[line_idx] = aligned_block[i]
Replaced(res, block_indices, aligned_block) ==
    [n \in 1..Len(res) |->
        IF \E k \in 1..Len(block_indices) : block_indices[k] + 1 = n
        THEN aligned_block[CHOOSE k \in 1..Len(block_indices) : block_indices[k] + 1 = n]
        ELSE res[n]]

\* one turn of the loop over set_blocks: _align_block may raise, and
\* aligned_block[i] raises IndexError when fewer lines came back than the
\* block has indices
Assigned(st, block_indices, aligned_block) ==
    IF aligned_block.raised # None
    THEN [st EXCEPT !.raised = aligned_block.raised, !.i = st.i + 1]
    ELSE IF Len(aligned_block.value) < Len(block_indices)
    THEN [st EXCEPT !.raised = "IndexError", !.i = st.i + 1]
    ELSE [st EXCEPT !.value = Replaced(st.value, block_indices, aligned_block.value),
                    !.i = st.i + 1]

\* the body of the loop of align_set_commands over set_blocks; once an
\* exception is raised the remaining blocks are not reached
AlignBlocksBody(st, set_blocks) ==
    IF st.raised # None THEN [st EXCEPT !.i = st.i + 1]
    ELSE Assigned(st, set_blocks[st.i + 1], AlignBlock(st.value, set_blocks[st.i + 1]))

\* the outcome of the loop: the exception, or return result
Outcome(st) == IF st.raised # None THEN Raised(st.raised) ELSE Returned(st.value)

AlignBlocks(ls, set_blocks) ==
    IF set_blocks = <<>> THEN Returned(ls)
    ELSE Outcome(While(AlignBlocksBody, [value |-> ls, raised |-> None, i |-> 0],
                       set_blocks))

AlignSetCommands(ls) ==
    IF ls = <<>> THEN Returned(ls)
    ELSE AlignBlocks(ls, FindSetBlocks(ls))

\* a normalization that puts two spaces between name and value
ApplySingleSpaceDoubled(ls) ==
    [k \in 1..Len(ls) |->
        IF IsSetCommand(Strip(ls[k])) /\ ParseSetCommand(ls[k]) # Nothing
        THEN ParseSetCommand(ls[k])[1].indent \o SetSpace
                 \o ParseSetCommand(ls[k])[1].variable
                 \o <<SP, SP>> \o ParseSetCommand(ls[k])[1].value
        ELSE ls[k]]

ApplySingleSpace(ls) ==
    IF ls = <<>> THEN ls
    ELSE [k \in 1..Len(ls) |->
            IF IsSetCommand(Strip(ls[k]))
            THEN LET parsed == ParseSetCommand(ls[k])
                 IN  IF parsed # Nothing
                     THEN parsed[1].indent \o SetSpace \o parsed[1].variable
                              \o <<SP>> \o parsed[1].value
                     ELSE ls[k]
            ELSE ls[k]]

(***************************************************************************)
(* TCLFormatter.format_file, one step per call it makes                    *)
(***************************************************************************)
FormattingResult(success, output_path, error_path, errs, message) ==
    [success |-> success, output_path |-> output_path, error_path |-> error_path,
     errors |-> errs, message |-> message]

\* _generate_output_path and the path _generate_error_log returns
OutputPath == "input_formatted.tcl"
ErrorLogPath == "errors.log"

\* f"Line {error.line_number}: {error.message}"
ErrorLines(errs) ==
    [k \in 1..Len(errs) |-> <<"Line", errs[k].line_number, errs[k].message>>]

Called(name, arg) == [name |-> name, arg |-> arg]

\* lines = self._read_file(input_path); an unreadable file raises IOError
ReadFile ==
    /\ pc = "start"
    /\ \/ /\ lines' = file
          /\ pc' = "validate"
          /\ UNCHANGED result
       \/ /\ result' = Some(FormattingResult(FALSE, None, None, Nothing,
                                             <<"File I/O error">>))
          /\ pc' = "done"
          /\ UNCHANGED lines
    /\ UNCHANGED << align_set, expand_lists, strict_indent, file, errors, formatted,
                    passes, output_file, error_log >>
    /\ UNCHANGED << thread_vars, ui_vars >>

\* a validation step that goes on to the rewrite passes whatever it found
ValidateSyntaxAndGoOn ==
    /\ pc = "validate"
    /\ errors' = Validate(lines)
    /\ passes' = Append(passes, Called("validate", lines))
    /\ pc' = "format"
    /\ UNCHANGED << align_set, expand_lists, strict_indent, file, lines, formatted,
                    output_file, error_log, result >>
    /\ UNCHANGED << thread_vars, ui_vars >>

\* errors = self.syntax_validator.validate(lines)
ValidateSyntax ==
    /\ pc = "validate"
    /\ errors' = Validate(lines)
    /\ passes' = Append(passes, Called("validate", lines))
    /\ pc' = IF errors' # <<>> THEN "error_log" ELSE "format"
    /\ UNCHANGED << align_set, expand_lists, strict_indent, file, lines, formatted,
                    output_file, error_log, result >>
    /\ UNCHANGED << thread_vars, ui_vars >>

\* error_log_path = self._generate_error_log(input_path, errors); return ...
\* a failing write raises IOError
GenerateErrorLog ==
    /\ pc = "error_log"
    /\ \/ /\ error_log' = Some(ErrorLines(errors))
          /\ result' = Some(FormattingResult(FALSE, None, ErrorLogPath, Some(errors),
                               <<"Syntax validation failed", Len(errors)>>))
       \/ /\ result' = Some(FormattingResult(FALSE, None, None, Nothing,
                                             <<"File I/O error">>))
          /\ UNCHANGED error_log
    /\ pc' = "done"
    /\ UNCHANGED << align_set, expand_lists, strict_indent, file, lines, errors,
                    formatted, passes, output_file >>
    /\ UNCHANGED << thread_vars, ui_vars >>

\* _format_lines: if not lines: return lines; else the indentation pass
FormatIndent ==
    /\ pc = "format"
    /\ IF lines = <<>>
       THEN /\ formatted' = lines
            /\ pc' = "write"
            /\ UNCHANGED passes
       ELSE /\ formatted' = ApplyIndentation(lines, strict_indent)
            /\ passes' = Append(passes, Called("apply_indentation", lines))
            /\ pc' = "expand"
    /\ UNCHANGED << align_set, expand_lists, strict_indent, file, lines, errors,
                    output_file, error_log, result >>
    /\ UNCHANGED << thread_vars, ui_vars >>

\* an expansion step that does not look at the expand_lists option
FormatExpandAlways ==
    /\ pc = "expand"
    /\ formatted' = ExpandLongLists(formatted)
    /\ passes' = Append(passes, Called("expand_long_lists", formatted))
    /\ pc' = "align"
    /\ UNCHANGED << align_set, expand_lists, strict_indent, file, lines, errors,
                    output_file, error_log, result >>
    /\ UNCHANGED << thread_vars, ui_vars >>

\* _format_lines: if self.expand_lists: ...expand_long_lists(formatted)
FormatExpand ==
    /\ pc = "expand"
    /\ IF expand_lists
       THEN /\ formatted' = ExpandLongLists(formatted)
            /\ passes' = Append(passes, Called("expand_long_lists", formatted))
       ELSE UNCHANGED << formatted, passes >>
    /\ pc' = "align"
    /\ UNCHANGED << align_set, expand_lists, strict_indent, file, lines, errors,
                    output_file, error_log, result >>
    /\ UNCHANGED << thread_vars, ui_vars >>

\* _format_lines: align_set_commands if self.align_set, else apply_single_space;
\* an exception of the pass reaches format_file's `except Exception`
FormatAlign ==
    /\ pc = "align"
    /\ IF align_set
       THEN /\ passes' = Append(passes, Called("align_set_commands", formatted))
            /\ LET aligned == AlignSetCommands(formatted)
               IN  IF aligned.raised # None
                   THEN /\ result' = Some(FormattingResult(FALSE, None, None, Nothing,
                                          <<"Unexpected error", aligned.raised>>))
                        /\ pc' = "done"
                        /\ UNCHANGED formatted
                   ELSE /\ formatted' = aligned.value
                        /\ pc' = "write"
                        /\ UNCHANGED result
       ELSE /\ passes' = Append(passes, Called("apply_single_space", formatted))
            /\ formatted' = ApplySingleSpace(formatted)
            /\ pc' = "write"
            /\ UNCHANGED result
    /\ UNCHANGED << align_set, expand_lists, strict_indent, file, lines, errors,
                    output_file, error_log >>
    /\ UNCHANGED << thread_vars, ui_vars >>

\* self._write_file(output_path, formatted_lines); return ...
\* an unwritable directory or a failing write raises
WriteFile ==
    /\ pc = "write"
    /\ \/ /\ output_file' = Some(formatted)
          /\ result' = Some(FormattingResult(TRUE, OutputPath, None, Nothing,
                               <<"Successfully formatted to", OutputPath>>))
       \/ /\ result' = Some(FormattingResult(FALSE, None, None, Nothing,
                                             <<"File I/O error">>))
          /\ UNCHANGED output_file
    /\ pc' = "done"
    /\ UNCHANGED << align_set, expand_lists, strict_indent, file, lines, errors,
                    formatted, passes, error_log >>
    /\ UNCHANGED << thread_vars, ui_vars >>

(***************************************************************************)
(* The input files of the format_file runs                                 *)
(***************************************************************************)
MaxFileLines == 3

\* every sequence of at most n members of S
SeqsUpTo(S, n) == UNION { [1..m -> S] : m \in 0..n }

\* a list literal as long as the expansion threshold
LongListLine ==
    <<"s", "e", "t", SP, "l", SP, LB, "a", SP>>
        \o Rep("b", LIST_LENGTH_THRESHOLD - 10) \o <<RB>>

\* the lines the input files are made of
FileLines ==
    { <<"a">>,
      <<LB>>,
      <<RB>>,
      <<QUOTE>>,
      <<HASH, LB>>,
      <<"s", "e", "t", SP, "x", SP, "1">>,
      <<"s", "e", "t", SP, "x">>,
      <<"s", "e", "t", SP, "y", "y", SP, SP, "2">> }

\* a comment as long as the expansion threshold that reads as a list
LongCommentLine ==
    <<HASH, SP, LB, "a", SP>> \o Rep("b", LIST_LENGTH_THRESHOLD - 6) \o <<RB>>

\* the lines of the input files with comments beside lists and assignments
CommentedLines ==
    { <<SP, HASH, "s", "e", "t", SP, "x", SP, SP, "1", SP>>,
      LongCommentLine,
      LongListLine,
      <<"s", "e", "t", SP, "y", "y", SP, SP, "2">> }

FileInputs ==
    SeqsUpTo(FileLines, MaxFileLines) \cup { <<LongListLine>> }
        \cup SeqsUpTo(CommentedLines, MaxFileLines)

Init ==
    /\ align_set \in BOOLEAN
    /\ expand_lists \in BOOLEAN
    /\ strict_indent \in BOOLEAN
    /\ file \in FileInputs
    /\ pc = "start"
    /\ lines = <<>>
    /\ errors = <<>>
    /\ formatted = <<>>
    /\ passes = <<>>
    /\ output_file = Nothing
    /\ error_log = Nothing
    /\ result = Nothing
    /\ NoThreads
    /\ NewWindow

Next ==
    \/ ReadFile
    \/ ValidateSyntax
    \/ GenerateErrorLog
    \/ FormatIndent
    \/ FormatExpand
    \/ FormatAlign
    \/ WriteFile

Spec == Init /\ [][Next]_vars

(***************************************************************************)
(* The engines called directly, each on inputs of its own                  *)
(***************************************************************************)
MaxLines == 3

\* lines of delimiters, escapes, comments and blanks
DelimLines ==
    { <<>>,
      <<"a">>,
      <<LB>>,
      <<RB>>,
      <<"a", RB>>,
      <<QUOTE, BS>>,
      <<QUOTE, LB>>,
      <<HASH, LB>>,
      <<BS, LB>>,
      <<QUOTE>>,
      <<SP, RB>>,
      <<QUOTE, RB, QUOTE>> }

\* lines of assignments and of what surrounds them
SetLines ==
    { <<"s", "e", "t", SP, "x", SP, "1">>,
      <<"s", "e", "t", SP, "x">>,
      <<SP, SP, "s", "e", "t", SP, "y", "y", SP, SP, "2">>,
      <<"s", "e", "t", SP, "z", "z", "z", TAB, "3">>,
      <<SP, "s", "e", "t", SP, "y", SP, "1">>,
      <<"s", "e", "t", "u", "p", SP, "a">>,
      <<HASH, SP, "c">>,
      <<>> }

\* the characters of a list content and the longest content
ContentChars == { "a", SP, TAB, LB, RB, QUOTE, BS }
MaxContent == 5
ContentInputs == SeqsUpTo(ContentChars, MaxContent)

\* lines around the expansion threshold: Fill(n) is a word of n characters
Fill(n) == Rep("b", n)

SetList == <<"s", "e", "t", SP, "l", SP, LB>>

ExpandLines ==
    { \* a list of two items, 80 characters long, and one of 79
      LongListLine,
      SetList \o <<"a", SP>> \o Fill(LIST_LENGTH_THRESHOLD - 11) \o <<RB>>,
      \* indented, items that are quoted, nested and escaped, separated by
      \* tabs and double spaces, with text and a blank after the list
      <<SP, SP>> \o SetList
          \o <<"a", TAB, QUOTE, "c", SP, "d", QUOTE, SP, SP, LB, "e", SP, "f", RB,
               SP, "g", BS, SP, "h", SP>>
          \o Fill(LIST_LENGTH_THRESHOLD - 20) \o <<RB, SP, ";", "x", SP>>,
      \* a nested list as long as the threshold among the items
      SetList \o <<LB, "a", SP>> \o Fill(LIST_LENGTH_THRESHOLD - 5)
          \o <<RB, SP, "x", RB>>,
      \* a comment, a single item, braces the wrong way round, a blank content
      <<HASH, SP, LB, "a", SP>> \o Fill(LIST_LENGTH_THRESHOLD) \o <<RB>>,
      SetList \o Fill(LIST_LENGTH_THRESHOLD) \o <<RB>>,
      <<RB, SP, "a", SP>> \o Fill(LIST_LENGTH_THRESHOLD) \o <<SP, LB>>,
      SetList \o <<SP, RB>> \o Fill(LIST_LENGTH_THRESHOLD),
      \* a short list, alone and made long by the blanks before or after it
      SetList \o <<"a", SP, "b", RB>>,
      Rep(SP, LIST_LENGTH_THRESHOLD - 10) \o SetList \o <<"a", SP, "b", RB>>,
      SetList \o <<"a", SP, "b", RB>> \o Rep(SP, LIST_LENGTH_THRESHOLD - 10) }

MaxExpandLines == 2
ExpandInputs == SeqsUpTo(ExpandLines, MaxExpandLines)

\* lines that end in no, one or two backslashes, and a blank one
ContinuationLines ==
    { <<>>,
      <<LB>>,
      <<"a", BS>>,
      <<"a", BS, SP>>,
      <<"a", BS, BS>>,
      <<RB>> }

ContinuationInputs == SeqsUpTo(ContinuationLines, MaxLines)

DelimInputs == SeqsUpTo(DelimLines, MaxLines)
SetInputs == SeqsUpTo(SetLines, MaxLines)

\* the call made, its arguments and what it returned
Call(name, arg, strict_mode, value) ==
    [name |-> name, arg |-> arg, strict_mode |-> strict_mode, value |-> value]

EngineFrame ==
    UNCHANGED << align_set, expand_lists, strict_indent, file, lines, errors,
                 formatted, passes, output_file, error_log, thread_vars, ui_vars >>

\* SyntaxValidator().validate(ls): the validator's fields on return
CallValidate ==
    /\ pc = "engines"
    /\ \E ls \in DelimInputs :
          result' = Some(Call("validate", ls, FALSE, ValidatorRun(ls)))
    /\ pc' = "returned"
    /\ EngineFrame

\* IndentationEngine(strict_mode).apply_indentation(ls)
CallApplyIndentation ==
    /\ pc = "engines"
    /\ \E ls \in DelimInputs, strict_mode \in BOOLEAN :
          result' = Some(Call("apply_indentation", ls, strict_mode,
                              ApplyIndentation(ls, strict_mode)))
    /\ pc' = "returned"
    /\ EngineFrame

\* AlignmentEngine().align_set_commands(ls)
CallAlignSetCommands ==
    /\ pc = "engines"
    /\ \E ls \in SetInputs :
          result' = Some(Call("align_set_commands", ls, FALSE, AlignSetCommands(ls)))
    /\ pc' = "returned"
    /\ EngineFrame

\* AlignmentEngine().apply_single_space(ls)
CallApplySingleSpace ==
    /\ pc = "engines"
    /\ \E ls \in SetInputs :
          result' = Some(Call("apply_single_space", ls, FALSE, ApplySingleSpace(ls)))
    /\ pc' = "returned"
    /\ EngineFrame

\* ListExpansionEngine().expand_long_lists(ls)
CallExpandLongLists ==
    /\ pc = "engines"
    /\ \E ls \in ExpandInputs :
          result' = Some(Call("expand_long_lists", ls, FALSE, ExpandLongLists(ls)))
    /\ pc' = "returned"
    /\ EngineFrame

\* ListExpansionEngine()._parse_list_items(c)
CallParseListItems ==
    /\ pc = "engines"
    /\ \E c \in ContentInputs :
          result' = Some(Call("_parse_list_items", c, FALSE, ParseListItems(c)))
    /\ pc' = "returned"
    /\ EngineFrame

\* SyntaxValidator()._handle_line_continuations(ls)
CallHandleLineContinuations ==
    /\ pc = "engines"
    /\ \E ls \in ContinuationInputs :
          result' = Some(Call("_handle_line_continuations", ls, FALSE,
                              HandleLineContinuations(ls)))
    /\ pc' = "returned"
    /\ EngineFrame


\* the lines _is_set_command is called with: stripped lines over the letters
\* of `setup`, the space and the tab
MaxSetLine == 5
SetCommandInputs ==
    { line \in SeqsUpTo({ "s", "e", "t", "u", SP, TAB }, MaxSetLine) :
          Strip(line) = line }

\* AlignmentEngine()._is_set_command(line)
CallIsSetCommand ==
    /\ pc = "engines"
    /\ \E line \in SetCommandInputs :
          result' = Some(Call("_is_set_command", line, FALSE, IsSetCommand(line)))
    /\ pc' = "returned"
    /\ EngineFrame
\* _format_lines under the options of a formatter: what it returns or raises
FormatLines(ls, options) ==
    IF ls = <<>> THEN Returned(ls)
    ELSE IF options.align_set
    THEN AlignSetCommands(
             IF options.expand_lists
             THEN ExpandLongLists(ApplyIndentation(ls, options.strict_indent))
             ELSE ApplyIndentation(ls, options.strict_indent))
    ELSE Returned(ApplySingleSpace(
             IF options.expand_lists
             THEN ExpandLongLists(ApplyIndentation(ls, options.strict_indent))
             ELSE ApplyIndentation(ls, options.strict_indent)))


\* _format_lines called directly under every combination of the options
MaxFormatLines == 2

\* a line as long as the expansion threshold whose list holds an item that
\* starts with `#` and closes a brace opened on an earlier line
HashItemLine ==
    <<"x", SP, LB, "a", SP, HASH, RB, RB, SP>> \o Rep("z", LIST_LENGTH_THRESHOLD)

FormatLinesPool ==
    { <<LB>>, <<RB>>, <<BS, BS>>, <<SP, LB, RB>>, HashItemLine, LongListLine,
      <<"s", "e", "t", SP, "x", SP, SP, "1">> }

\* TCLFormatter(**options)._format_lines(ls)
CallFormatLines ==
    /\ pc = "engines"
    /\ \E ls \in SeqsUpTo(FormatLinesPool, MaxFormatLines),
             options \in [align_set : BOOLEAN, expand_lists : BOOLEAN,
                          strict_indent : BOOLEAN] :
          result' = Some(Call("_format_lines", [lines |-> ls, options |-> options],
                              options.strict_indent, FormatLines(ls, options)))
    /\ pc' = "returned"
    /\ EngineFrame

InitEngines ==
    /\ align_set = FALSE
    /\ expand_lists = FALSE
    /\ strict_indent = FALSE
    /\ file = <<>>
    /\ pc = "engines"
    /\ lines = <<>>
    /\ errors = <<>>
    /\ formatted = <<>>
    /\ passes = <<>>
    /\ output_file = Nothing
    /\ error_log = Nothing
    /\ result = Nothing
    /\ NoThreads
    /\ NewWindow

NextEngines ==
    \/ CallValidate
    \/ CallApplyIndentation
    \/ CallAlignSetCommands
    \/ CallApplySingleSpace
    \/ CallExpandLongLists
    \/ CallParseListItems
    \/ CallHandleLineContinuations
    \/ CallIsSetCommand
    \/ CallFormatLines

SpecEngines == InitEngines /\ [][NextEngines]_vars

(***************************************************************************)
(* One run of validate, a step for every character it reads                *)
(***************************************************************************)
\* a call of validate(ls) before its first statement; k counts the folded
\* lines done, in_string and i are the locals of _process_line
Scanner(ls) ==
    [pc |-> "validate", lines |-> ls, processed_lines |-> <<>>, k |-> 0,
     in_string |-> FALSE, i |-> 0, errors |-> Nothing]

\* the folded line _process_line is reading
CurrentLine == threads[1].processed_lines[threads[1].k + 1]

\* validate: self.stack = []; self.errors = [];
\* processed_lines = self._handle_line_continuations(lines)
BeginValidate ==
    /\ threads[1].pc = "validate"
    /\ validators' = << EmptyValidator >>
    /\ threads' = [threads EXCEPT
                      ![1].processed_lines = HandleLineContinuations(threads[1].lines),
                      ![1].pc = "lines"]
    /\ UNCHANGED << formatter_vars, ui_vars >>


\* a _process_line that starts a line with the in_string of the line before
BeginLineKeepingString ==
    /\ threads[1].pc = "lines"
    /\ threads[1].k < Len(threads[1].processed_lines)
    /\ IF StartsWith(Strip(CurrentLine.line), <<HASH>>)
       THEN threads' = [threads EXCEPT ![1].k = threads[1].k + 1]
       ELSE threads' = [threads EXCEPT ![1].i = 0, ![1].pc = "chars"]
    /\ UNCHANGED << formatter_vars, ui_vars, validators >>
\* _process_line up to its loop: a comment line returns at once
BeginLine ==
    /\ threads[1].pc = "lines"
    /\ threads[1].k < Len(threads[1].processed_lines)
    /\ IF StartsWith(Strip(CurrentLine.line), <<HASH>>)
       THEN threads' = [threads EXCEPT ![1].k = threads[1].k + 1]
       ELSE threads' = [threads EXCEPT ![1].in_string = FALSE, ![1].i = 0,
                                       ![1].pc = "chars"]
    /\ UNCHANGED << formatter_vars, ui_vars, validators >>

\* the validator's fields and the locals of _process_line after one turn
\* of its while loop
Scanned ==
    ScanBody([stack |-> validators[1].stack, errors |-> validators[1].errors,
              in_string |-> threads[1].in_string, i |-> threads[1].i,
              line_num |-> CurrentLine.line_num],
             CurrentLine.line)

\* _process_line: one turn of `while i < len(line)`
ScanChar ==
    /\ threads[1].pc = "chars"
    /\ threads[1].i < Len(CurrentLine.line)
    /\ validators' = << [stack |-> Scanned.stack, errors |-> Scanned.errors] >>
    /\ threads' = [threads EXCEPT ![1].in_string = Scanned.in_string,
                                  ![1].i = Scanned.i]
    /\ UNCHANGED << formatter_vars, ui_vars >>

\* _process_line returns at the end of the line
EndLine ==
    /\ threads[1].pc = "chars"
    /\ threads[1].i >= Len(CurrentLine.line)
    /\ threads' = [threads EXCEPT ![1].k = threads[1].k + 1, ![1].pc = "lines"]
    /\ UNCHANGED << formatter_vars, ui_vars, validators >>

\* validate: self._check_remaining_stack(); return self.errors
EndValidate ==
    /\ threads[1].pc = "lines"
    /\ threads[1].k = Len(threads[1].processed_lines)
    /\ validators' = << CheckRemainingStack(validators[1]) >>
    /\ threads' = [threads EXCEPT ![1].errors = Some(validators'[1].errors),
                                  ![1].pc = "returned"]
    /\ UNCHANGED << formatter_vars, ui_vars >>

InitScan ==
    /\ NoFormatter
    /\ NewWindow
    /\ threads \in { << Scanner(ls) >> : ls \in DelimInputs }
    /\ validators = << EmptyValidator >>

NextScan ==
    \/ BeginValidate
    \/ BeginLine
    \/ ScanChar
    \/ EndLine
    \/ EndValidate

SpecScan == InitScan /\ [][NextScan]_vars

(***************************************************************************)
(* Two invocations running concurrently, each on a TCLFormatter of its own *)
(* as FormatterWorker.run and the /format route make them                  *)
(***************************************************************************)
MaxThreadLines == 2

Threads == {1, 2}

\* the lines and the options the invocations are given
ThreadLines ==
    { <<LB>>,
      <<RB>>,
      <<"s", "e", "t", SP, "x", SP, SP, "1">> }

ThreadInputs == SeqsUpTo(ThreadLines, MaxThreadLines)

ThreadOptions ==
    { [align_set |-> a, expand_lists |-> FALSE, strict_indent |-> FALSE] :
          a \in BOOLEAN }

\* a constructor that hands every formatter the first validator made
SharedValidator(objects) == 1

\* self.syntax_validator = SyntaxValidator(): the object made, given the
\* validator objects there are
NewValidator(objects) == Len(objects) + 1

\* TCLFormatter(align_set, expand_lists, strict_indent)
Construct(t) ==
    /\ threads[t].pc = "start"
    /\ validators' =
           [k \in 1..Max2(NewValidator(validators), Len(validators)) |->
               IF k = NewValidator(validators) THEN EmptyValidator ELSE validators[k]]
    /\ threads' = [threads EXCEPT ![t].syntax_validator = NewValidator(validators),
                                  ![t].pc = "validate"]
    /\ UNCHANGED << formatter_vars, ui_vars >>

\* validate: self.stack = []; self.errors = [];
\* processed_lines = self._handle_line_continuations(lines)
ValidateEnter(t) ==
    /\ threads[t].pc = "validate"
    /\ validators' = [validators EXCEPT ![threads[t].syntax_validator] = EmptyValidator]
    /\ threads' = [threads EXCEPT
                      ![t].processed_lines = HandleLineContinuations(threads[t].lines),
                      ![t].i = 0,
                      ![t].pc = "scan"]
    /\ UNCHANGED << formatter_vars, ui_vars >>

\* validate: one turn of `for line_num, line in processed_lines`
ValidateLine(t) ==
    /\ threads[t].pc = "scan"
    /\ threads[t].i < Len(threads[t].processed_lines)
    /\ validators' =
           [validators EXCEPT ![threads[t].syntax_validator] =
               ProcessLine(validators[threads[t].syntax_validator],
                           threads[t].processed_lines[threads[t].i + 1].line,
                           threads[t].processed_lines[threads[t].i + 1].line_num)]
    /\ threads' = [threads EXCEPT ![t].i = threads[t].i + 1]
    /\ UNCHANGED << formatter_vars, ui_vars >>

\* validate: self._check_remaining_stack(); return self.errors; and the
\* `if errors:` of the caller
ValidateReturn(t) ==
    /\ threads[t].pc = "scan"
    /\ threads[t].i = Len(threads[t].processed_lines)
    /\ validators' =
           [validators EXCEPT ![threads[t].syntax_validator] =
               CheckRemainingStack(validators[threads[t].syntax_validator])]
    /\ threads' =
           [threads EXCEPT
               ![t].errors = Some(validators'[threads[t].syntax_validator].errors),
               ![t].pc = IF validators'[threads[t].syntax_validator].errors # <<>>
                         THEN "done" ELSE "format"]
    /\ UNCHANGED << formatter_vars, ui_vars >>

\* formatted_lines = self._format_lines(lines)
FormatThread(t) ==
    /\ threads[t].pc = "format"
    /\ threads' = [threads EXCEPT
                      ![t].formatted = Some(FormatLines(threads[t].lines,
                                                        threads[t].options)),
                      ![t].pc = "done"]
    /\ UNCHANGED << formatter_vars, ui_vars, validators >>

\* an invocation before its formatter is made
Invocation(ls, options) ==
    [pc |-> "start", lines |-> ls, options |-> options, syntax_validator |-> 0,
     processed_lines |-> <<>>, i |-> 0, errors |-> Nothing, formatted |-> Nothing]

InitThreads ==
    /\ NoFormatter
    /\ NewWindow
    /\ threads \in [Threads -> { Invocation(ls, options) :
                                    ls \in ThreadInputs, options \in ThreadOptions }]
    /\ validators = <<>>

NextThreads ==
    \/ \E t \in Threads : Construct(t)
    \/ \E t \in Threads : ValidateEnter(t)
    \/ \E t \in Threads : ValidateLine(t)
    \/ \E t \in Threads : ValidateReturn(t)
    \/ \E t \in Threads : FormatThread(t)

SpecThreads == InitThreads /\ [][NextThreads]_vars

(***************************************************************************)
(* The desktop window of src/src/ui.py: its handlers on the main thread    *)
(* and the worker threads it starts                                        *)
(***************************************************************************)
MaxWorkers == 3

\* the answers of the file dialog: cancelled, a .tcl file, another file
DialogPaths == { "", "a.tcl", "notes.txt" }

\* file_path.lower().endswith('.tcl')
IsTclPath(file_path) == file_path = "a.tcl"

\* the results a formatter run may return to the worker
WorkerResults ==
    { FormattingResult(TRUE, OutputPath, None, Nothing,
                       <<"Successfully formatted to", OutputPath>>),
      FormattingResult(FALSE, None, ErrorLogPath,
                       Some(<< SyntaxError(1, <<"Unmatched opening brace">>, "brace") >>),
                       <<"Syntax validation failed", 1>>),
      FormattingResult(FALSE, None, None, Nothing, <<"File I/O error">>) }

\* FormatterWorker(file_path, options), started; handled counts the runs of
\* _on_formatting_complete on its result
FormatterWorker(file_path, options) ==
    [file_path |-> file_path, options |-> options, state |-> "running", handled |-> 0]

\* a worker whose reference the window has dropped
Released(w) ==
    [file_path |-> None, options |-> Nothing, state |-> "released",
     handled |-> w.handled + 1]

\* browse_file
BrowseFile ==
    /\ \E file_path \in DialogPaths :
          IF file_path = ""
          THEN UNCHANGED << selected_file_path, format_button, status_output >>
          ELSE IF IsTclPath(file_path)
          THEN /\ selected_file_path' = file_path
               /\ format_button' = TRUE
               /\ status_output' = <<"File selected successfully. Ready to format.">>
          ELSE /\ selected_file_path' = None
               /\ format_button' = FALSE
               /\ status_output' = <<"Error: Invalid file selection.", file_path>>
    /\ UNCHANGED << formatting_options, operation_in_progress, worker, workers, signals >>
    /\ UNCHANGED << formatter_vars, thread_vars >>

\* _on_align_set_changed
OnAlignSetChanged ==
    /\ \E checked \in BOOLEAN :
          formatting_options' = [formatting_options EXCEPT !.align_set = checked]
    /\ UNCHANGED << selected_file_path, operation_in_progress, worker, format_button,
                    status_output, workers, signals >>
    /\ UNCHANGED << formatter_vars, thread_vars >>

\* _on_expand_lists_changed
OnExpandListsChanged ==
    /\ \E checked \in BOOLEAN :
          formatting_options' = [formatting_options EXCEPT !.expand_lists = checked]
    /\ UNCHANGED << selected_file_path, operation_in_progress, worker, format_button,
                    status_output, workers, signals >>
    /\ UNCHANGED << formatter_vars, thread_vars >>

\* _on_strict_indent_changed
OnStrictIndentChanged ==
    /\ \E checked \in BOOLEAN :
          formatting_options' = [formatting_options EXCEPT !.strict_indent = checked]
    /\ UNCHANGED << selected_file_path, operation_in_progress, worker, format_button,
                    status_output, workers, signals >>
    /\ UNCHANGED << formatter_vars, thread_vars >>

\* a format_file that starts a worker whether or not one is in flight
FormatFileUnguarded ==
    /\ IF selected_file_path = None
       THEN /\ status_output' = <<"Error: No file selected.">>
            /\ UNCHANGED << selected_file_path, formatting_options,
                            operation_in_progress, worker, format_button, workers,
                            signals >>
       ELSE /\ Len(workers) < MaxWorkers
            /\ operation_in_progress' = TRUE
            /\ format_button' = FALSE
            /\ status_output' = <<"Processing...">>
            /\ workers' = Append(workers, FormatterWorker(selected_file_path,
                                                          formatting_options))
            /\ worker' = Some(Len(workers) + 1)
            /\ UNCHANGED << selected_file_path, formatting_options, signals >>
    /\ UNCHANGED << formatter_vars, thread_vars >>

\* format_file of the window; the number of workers made is capped
FormatFile ==
    /\ IF operation_in_progress
       THEN UNCHANGED ui_vars
       ELSE IF selected_file_path = None
       THEN /\ status_output' = <<"Error: No file selected.">>
            /\ UNCHANGED << selected_file_path, formatting_options,
                            operation_in_progress, worker, format_button, workers,
                            signals >>
       ELSE /\ Len(workers) < MaxWorkers
            /\ operation_in_progress' = TRUE
            /\ format_button' = FALSE
            /\ status_output' = <<"Processing...">>
            /\ workers' = Append(workers, FormatterWorker(selected_file_path,
                                                          formatting_options))
            /\ worker' = Some(Len(workers) + 1)
            /\ UNCHANGED << selected_file_path, formatting_options, signals >>
    /\ UNCHANGED << formatter_vars, thread_vars >>

\* FormatterWorker.run on its thread: the formatter returns a result and
\* the worker emits it; the emission waits for the main thread
WorkerRun(w) ==
    /\ w \in 1..Len(workers)
    /\ workers[w].state = "running"
    /\ \E r \in WorkerResults :
          signals' = Append(signals, [worker |-> w, result |-> r])
    /\ workers' = [workers EXCEPT ![w].state = "finished"]
    /\ UNCHANGED << selected_file_path, formatting_options, operation_in_progress,
                    worker, format_button, status_output >>
    /\ UNCHANGED << formatter_vars, thread_vars >>

\* the message _on_formatting_complete displays for a result
CompletionMessage(r) ==
    IF r.success THEN <<"Formatting completed successfully!", r.output_path>>
    ELSE IF r.errors # Nothing /\ r.errors # Some(<<>>)
    THEN <<"Syntax validation failed!", Len(r.errors[1]), r.error_path>>
    ELSE <<"Formatting failed!">> \o r.message

\* _on_formatting_complete(result), run by the main thread for the oldest
\* emission waiting
OnFormattingComplete ==
    /\ signals # <<>>
    /\ status_output' = CompletionMessage(Head(signals).result)
    /\ format_button' = TRUE
    /\ operation_in_progress' = FALSE
    /\ worker' = Nothing
    /\ workers' = [workers EXCEPT ![Head(signals).worker] =
                      Released(workers[Head(signals).worker])]
    /\ signals' = Tail(signals)
    /\ UNCHANGED << selected_file_path, formatting_options >>
    /\ UNCHANGED << formatter_vars, thread_vars >>

InitUI ==
    /\ NoFormatter
    /\ NoThreads
    /\ NewWindow

NextUI ==
    \/ BrowseFile
    \/ OnAlignSetChanged
    \/ OnExpandListsChanged
    \/ OnStrictIndentChanged
    \/ FormatFile
    \/ \E w \in 1..MaxWorkers : WorkerRun(w)
    \/ OnFormattingComplete

\* a started thread runs, and the event loop of the main thread delivers
\* every emission waiting
SpecUI ==
    /\ InitUI
    /\ [][NextUI]_vars
    /\ WF_vars(\E w \in 1..MaxWorkers : WorkerRun(w))
    /\ WF_vars(OnFormattingComplete)

(***************************************************************************)
(* The /format route of src/web/app.py.  Flask serves every request in a   *)
(* thread of its own; a request is a member of threads.  The uploads are   *)
(* saved under temporary names of their own in one temporary directory, so *)
(* the formatted output of a request is a file of its own, while           *)
(* _generate_error_log writes errors.log of that directory for every       *)
(* request: error_log is that one file.  open(path, 'w') truncates the     *)
(* file when it is opened and the buffered lines reach it when it is       *)
(* closed, written from offset 0 over what is there.  The diagnostics of   *)
(* the uploads below are lines of one length, so writing over a longer     *)
(* content leaves its last lines in place.                                 *)
(***************************************************************************)
MaxRequests == 2
Requests == 1..MaxRequests

WebUploads ==
    { << <<"a">> >>, << <<LB>> >>, << <<"a">>, <<LB>> >>, << <<LB>>, <<LB>> >> }

\* request.form.get(..., 'false') for the three options
FormOptions == [align_set |-> FALSE, expand_lists |-> FALSE, strict_indent |-> FALSE]

\* a request whose upload has been saved as input_temp; fd is the state of
\* the file object _generate_error_log writes through
Request(upload) ==
    [pc |-> "format_file", upload |-> upload, fd |-> "closed",
     file_content |-> <<>>, response |-> Nothing]

\* jsonify({'error': message}), 500
ServerError(message) == [status |-> 500, error |-> message, content |-> <<>>]

\* send_file(BytesIO(file_content), ...)
SendFile(file_content) == [status |-> 200, error |-> "", content |-> file_content]

\* content written from offset 0 over the old content of the file
WrittenOver(content, old) == content \o SubSeq(old, Len(content) + 1, Len(old))

WebFrame ==
    UNCHANGED << align_set, expand_lists, strict_indent, file, pc, lines, errors,
                 formatted, passes, output_file, result, validators, ui_vars >>

\* result = formatter.format_file(input_temp.name) up to the validation, and
\* for a valid upload to the end of the request: the output file is the
\* request's own
FormatUpload(r) ==
    /\ threads[r].pc = "format_file"
    /\ threads' =
           [threads EXCEPT ![r] =
               IF Validate(threads[r].upload) # <<>>
               THEN [@ EXCEPT !.pc = "open"]
               ELSE IF FormatLines(threads[r].upload, FormOptions).raised # None
               THEN [@ EXCEPT !.pc = "done",
                              !.response = Some(ServerError("Error log not found"))]
               ELSE [@ EXCEPT !.pc = "done",
                              !.response =
                                  Some(SendFile(FormatLines(threads[r].upload, FormOptions).value))]]
    /\ UNCHANGED error_log
    /\ WebFrame

\* _generate_error_log: with open(error_log_path, 'w', ...) as f
OpenErrorLog(r) ==
    /\ threads[r].pc = "open"
    /\ error_log' = Some(<<>>)
    /\ threads' = [threads EXCEPT ![r] = [@ EXCEPT !.pc = "write", !.fd = "open"]]
    /\ WebFrame

\* _generate_error_log: the writes, flushed when the with block is left; a
\* file unlinked since it was opened is written to under no name
WriteErrorLog(r) ==
    /\ threads[r].pc = "write"
    /\ error_log' =
           IF threads[r].fd = "open"
           THEN Some(WrittenOver(ErrorLines(Validate(threads[r].upload)), error_log[1]))
           ELSE error_log
    /\ threads' = [threads EXCEPT ![r] = [@ EXCEPT !.pc = "exists", !.fd = "closed"]]
    /\ WebFrame

\* if not error_file or not os.path.exists(error_file): return ..., 500
CheckErrorLog(r) ==
    /\ threads[r].pc = "exists"
    /\ threads' =
           [threads EXCEPT ![r] =
               IF error_log = Nothing
               THEN [@ EXCEPT !.pc = "done",
                              !.response = Some(ServerError("Error log not found"))]
               ELSE [@ EXCEPT !.pc = "read"]]
    /\ UNCHANGED error_log
    /\ WebFrame

\* with open(error_file, 'rb') as f: file_content = f.read(); a missing
\* file raises, and except Exception answers 500
ReadErrorLog(r) ==
    /\ threads[r].pc = "read"
    /\ threads' =
           [threads EXCEPT ![r] =
               IF error_log = Nothing
               THEN [@ EXCEPT !.pc = "done",
                              !.response = Some(ServerError("Processing error"))]
               ELSE [@ EXCEPT !.pc = "unlink", !.file_content = error_log[1]]]
    /\ UNCHANGED error_log
    /\ WebFrame

\* os.unlink(error_file), whose failure is passed over, and send_file; the
\* file objects open on the unlinked file keep it without its name
UnlinkErrorLog(r) ==
    /\ threads[r].pc = "unlink"
    /\ error_log' = Nothing
    /\ threads' =
           [q \in Requests |->
               IF q = r
               THEN [threads[q] EXCEPT !.pc = "done",
                                       !.response = Some(SendFile(threads[q].file_content))]
               ELSE IF threads[q].fd = "open" /\ error_log # Nothing
               THEN [threads[q] EXCEPT !.fd = "unlinked"]
               ELSE threads[q]]
    /\ WebFrame

InitWeb ==
    /\ NoFormatter
    /\ NewWindow
    /\ threads \in [Requests -> { Request(upload) : upload \in WebUploads }]
    /\ validators = <<>>

NextWeb ==
    \/ \E r \in Requests : FormatUpload(r)
    \/ \E r \in Requests : OpenErrorLog(r)
    \/ \E r \in Requests : WriteErrorLog(r)
    \/ \E r \in Requests : CheckErrorLog(r)
    \/ \E r \in Requests : ReadErrorLog(r)
    \/ \E r \in Requests : UnlinkErrorLog(r)

SpecWeb == InitWeb /\ [][NextWeb]_vars

(***************************************************************************)
(* What the properties below read in a returned call                       *)
(***************************************************************************)
Returns(name) == result # Nothing /\ pc = "returned" /\ result[1].name = name

(***************************************************************************)
(* A reference reading of delimiter balance, independent of the validator. *)
(* The text is folded at line continuations, every character keeping the   *)
(* number of the physical line it stands on (at) and of the first physical *)
(* line of its folded line (first).  Comment lines are skipped, a          *)
(* backslash hides the next character, a quote toggles the string state,   *)
(* and outside strings `{` opens and `}` closes the innermost open brace.  *)
(* With carry the string state runs on from one folded line to the next    *)
(* (quotes pair over the whole text); without it every folded line starts  *)
(* outside a string (quotes pair within their own line).                   *)
(***************************************************************************)
Tagged(line, at, first) ==
    [p \in 1..Len(line) |-> [ch |-> line[p], at |-> at, first |-> first]]

Refirst(text, first) == [p \in 1..Len(text) |-> [text[p] EXCEPT !.first = first]]

\* the folded lines of the physical lines k..Len(ls)
RECURSIVE TaggedLines(_, _)
TaggedLines(ls, k) ==
    IF k > Len(ls) THEN <<>>
    ELSE IF k < Len(ls) /\ EndsWith(RStrip(ls[k]), <<BS>>)
    THEN << Tagged(DropLast(RStrip(ls[k])), k, k)
                \o Refirst(TaggedLines(ls, k + 1)[1], k) >>
             \o Tail(TaggedLines(ls, k + 1))
    ELSE << Tagged(ls[k], k, k) >> \o TaggedLines(ls, k + 1)

Untagged(text) == [p \in 1..Len(text) |-> text[p].ch]

\* one character of a folded line: open is the stack of open braces, stray
\* counts the `}` that close nothing, deepest is the largest nesting seen
BalanceCharBody(st, text) ==
    LET c == text[st.i + 1]
    IN  IF c.ch = BS /\ st.i + 1 < Len(text) THEN [st EXCEPT !.i = st.i + 2]
        ELSE IF c.ch = QUOTE
        THEN [st EXCEPT !.in_string = ~st.in_string, !.i = st.i + 1]
        ELSE IF st.in_string THEN [st EXCEPT !.i = st.i + 1]
        ELSE IF c.ch = LB
        THEN [st EXCEPT !.open = Append(st.open, c),
                        !.deepest = Max2(st.deepest, Len(st.open) + 1),
                        !.i = st.i + 1]
        ELSE IF c.ch = RB
        THEN IF st.open = <<>>
             THEN [st EXCEPT !.stray = st.stray + 1, !.i = st.i + 1]
             ELSE [st EXCEPT !.open = DropLast(st.open), !.i = st.i + 1]
        ELSE [st EXCEPT !.i = st.i + 1]

\* the end of a folded line: without carry an open string ends unpaired
EndOfLine(st, carry, j) ==
    IF carry THEN [st EXCEPT !.i = j]
    ELSE [st EXCEPT !.unpaired = IF st.in_string THEN st.unpaired + 1 ELSE st.unpaired,
                    !.in_string = FALSE,
                    !.i = j]

BalanceLineBody(st, texts) ==
    IF StartsWith(Strip(Untagged(texts[st.i + 1])), <<HASH>>)
    THEN [st EXCEPT !.i = st.i + 1]
    ELSE EndOfLine(While(BalanceCharBody, [st EXCEPT !.i = 0], texts[st.i + 1]),
                   st.carry, st.i + 1)

\* the end of the text: with carry a string still open is unpaired
EndOfText(st) ==
    [open |-> st.open, stray |-> st.stray, deepest |-> st.deepest,
     unpaired |-> IF st.in_string THEN st.unpaired + 1 ELSE st.unpaired]

Balance(ls, carry) ==
    EndOfText(While(BalanceLineBody,
                    [open |-> <<>>, stray |-> 0, unpaired |-> 0, deepest |-> 0,
                     in_string |-> FALSE, carry |-> carry, i |-> 0],
                    TaggedLines(ls, 1)))

Sound(b) == b.open = <<>> /\ b.stray = 0 /\ b.unpaired = 0
OneOpenBrace(b) == Len(b.open) = 1 /\ b.stray = 0 /\ b.unpaired = 0

UnmatchedOpeningBrace(n) ==
    << SyntaxError(n, <<"Unmatched opening brace">>, "brace") >>

\* C2, as stated: when the only defect of the input (read over the whole
\* text) is one unclosed `{`, validate returns exactly one diagnostic, of
\* type brace, 'Unmatched opening brace', at the physical line on which
\* that `{` stands.
UnclosedBraceReportedWhereItStands ==
    Returns("validate") /\ OneOpenBrace(Balance(result[1].arg, TRUE))
        => result[1].value.errors
               = UnmatchedOpeningBrace(Balance(result[1].arg, TRUE).open[1].at)

\* C2, amended: when the only defect of the input (quotes pairing within
\* their folded line) is one unclosed `{`, validate returns exactly one
\* diagnostic, of type brace, 'Unmatched opening brace', at the first
\* physical line of the continuation-folded line on which that `{` stands.
UnclosedBraceReportedAtFoldedLine ==
    Returns("validate") /\ OneOpenBrace(Balance(result[1].arg, FALSE))
        => result[1].value.errors
               = UnmatchedOpeningBrace(Balance(result[1].arg, FALSE).open[1].first)

\* validate has returned on an input whose one defect is an unclosed brace
\* standing on a later physical line of its folded line
UnclosedBraceOnContinuation ==
    /\ Returns("validate")
    /\ OneOpenBrace(Balance(result[1].arg, FALSE))
    /\ Balance(result[1].arg, FALSE).open[1].at
           # Balance(result[1].arg, FALSE).open[1].first

(***************************************************************************)
(* TCLFormatter.format_file                                                *)
(***************************************************************************)
ValidateOnly == << Called("validate", lines) >>

\* C3, as stated: whenever validate returns diagnostics, format_file runs
\* no rewrite pass and writes no output, and its result has success=False,
\* output_path=None, a non-null error_path and errors equal to the
\* diagnostics.
InvalidInputYieldsDiagnostics ==
    errors # <<>> =>
        /\ passes = ValidateOnly
        /\ formatted = <<>>
        /\ output_file = Nothing
        /\ result # Nothing =>
              /\ ~result[1].success
              /\ result[1].output_path = None
              /\ result[1].error_path # None
              /\ result[1].errors = Some(errors)

\* C3, amended: whenever validate returns diagnostics, format_file runs no
\* rewrite pass and writes no output, and its result has success=False and
\* output_path=None; when errors.log could be written the result has its
\* path as error_path and errors equal to the diagnostics, and when it could
\* not both are None.
InvalidInputStopsTheRun ==
    errors # <<>> =>
        /\ passes = ValidateOnly
        /\ formatted = <<>>
        /\ output_file = Nothing
        /\ result # Nothing =>
              /\ ~result[1].success
              /\ result[1].output_path = None
              /\ IF error_log # Nothing
                 THEN /\ error_log = Some(ErrorLines(errors))
                      /\ result[1].error_path = ErrorLogPath
                      /\ result[1].errors = Some(errors)
                 ELSE /\ result[1].error_path = None
                      /\ result[1].errors = Nothing

\* format_file has returned after writing the log of a rejected input
DiagnosticsLogged ==
    /\ pc = "done"
    /\ errors # <<>>
    /\ error_log # Nothing
    /\ result # Nothing

\* C4: for every input validate accepts and every combination of options,
\* format_file, unless reading or writing fails, returns success=True with
\* the formatted output written.
AcceptedInputIsFormatted ==
    /\ pc = "done"
    /\ passes # <<>>
    /\ errors = <<>>
    /\ result[1].message # <<"File I/O error">>
    => /\ result[1].success
       /\ result[1].output_path = OutputPath
       /\ output_file = Some(formatted)

\* the passes a run makes, by name, and the ones its options ask for
PassNames == [k \in 1..Len(passes) |-> passes[k].name]

ExpectedPasses ==
    << "validate", "apply_indentation" >>
        \o (IF expand_lists THEN << "expand_long_lists" >> ELSE <<>>)
        \o << IF align_set THEN "align_set_commands" ELSE "apply_single_space" >>

IsPrefix(s, t) == Len(s) <= Len(t) /\ SubSeq(t, 1, Len(s)) = s

Indented == ApplyIndentation(lines, strict_indent)

\* every pass was handed the text the passes before it made of the
\* validated lines
PassesChained ==
    \A k \in 1..Len(passes) :
        CASE passes[k].name = "validate" -> passes[k].arg = lines
          [] passes[k].name = "apply_indentation" ->
                passes[k].arg = lines /\ Validate(lines) = <<>>
          [] passes[k].name = "expand_long_lists" ->
                passes[k].arg = Indented /\ Validate(lines) = <<>>
          [] OTHER ->
                /\ Validate(lines) = <<>>
                /\ passes[k].arg = IF expand_lists THEN ExpandLongLists(Indented)
                                   ELSE Indented

\* the rewrite passes are over: the output is about to be written, or was
Rewritten == pc = "write" \/ (result # Nothing /\ result[1].success)

\* C5, as stated: in every run the passes go validate, indentation
\* (always), expansion (only if expand_lists), then exactly one of alignment
\* (if align_set) and normalization; expansion and alignment/normalization
\* only receive validated and indented text.
PassesRunInFixedOrder ==
    /\ IsPrefix(PassNames, ExpectedPasses)
    /\ PassesChained
    /\ Rewritten => PassNames = ExpectedPasses

\* C5, amended: on a file with at least one line the passes go validate,
\* indentation, expansion (only if expand_lists), then exactly one of
\* alignment (if align_set) and normalization, expansion and
\* alignment/normalization only receiving validated and indented text; on
\* an empty file validate is the only pass.
PassesRunInFixedOrderUnlessEmpty ==
    /\ IsPrefix(PassNames, ExpectedPasses)
    /\ PassesChained
    /\ Rewritten =>
          PassNames = IF lines = <<>> THEN << "validate" >> ELSE ExpectedPasses

\* the four passes have run on a file with lines
AllPassesRun ==
    /\ pc = "write"
    /\ lines # <<>>
    /\ expand_lists
    /\ align_set
    /\ Len(passes) = 4

(***************************************************************************)
(* IndentationEngine.apply_indentation                                     *)
(***************************************************************************)
\* the braces open at the start of physical line k
OpenAtStart(ls, k) == Len(Balance(SubSeq(ls, 1, k - 1), FALSE).open)

\* the depth C6 gives line k
Depth(ls, k) ==
    OpenAtStart(ls, k) - (IF StartsWith(Strip(ls[k]), <<RB>>) THEN 1 ELSE 0)

IsCode(line) == Strip(line) # <<>> /\ ~StartsWith(Strip(line), <<HASH>>)

\* C6: on every input validate accepts, apply_indentation writes each
\* non-blank, non-comment line as 2*d spaces and the trimmed text, d being
\* the number of braces open at the start of the line, less one when the
\* trimmed line starts with `}`.
IndentationFollowsOpenBraces ==
    Returns("apply_indentation") /\ Validate(result[1].arg) = <<>>
        => \A k \in 1..Len(result[1].arg) :
              IsCode(result[1].arg[k]) =>
                  /\ Depth(result[1].arg, k) >= 0
                  /\ result[1].value[k]
                         = Rep(SP, 2 * Depth(result[1].arg, k))
                               \o Strip(result[1].arg[k])

\* C7: on every input validate accepts, the level every line is written at
\* and the depth carried to the next line are never negative and never
\* above the deepest brace nesting of the input.
IndentationLevelWithinNesting ==
    Returns("apply_indentation") /\ Validate(result[1].arg) = <<>>
        => \A k \in 1..Len(result[1].arg) :
              LET step == IndentSteps(result[1].arg, result[1].strict_mode)[k]
                  deepest == Balance(result[1].arg, FALSE).deepest
              IN  /\ 0 <= step.line_level
                  /\ step.line_level <= deepest
                  /\ 0 <= step.current_level
                  /\ step.current_level <= deepest

(***************************************************************************)
(* AlignmentEngine                                                         *)
(***************************************************************************)
NoWhitespace(s) == SelectSeq(s, LAMBDA c : ~IsSpace(c))

\* C8: on every input align_set_commands returns as many lines, in the same
\* order, each differing from its input line in spaces and tabs only.
AlignmentChangesOnlyWhitespace ==
    Returns("align_set_commands")
        => /\ result[1].value.raised = None
           /\ Len(result[1].value.value) = Len(result[1].arg)
           /\ \A k \in 1..Len(result[1].arg) :
                 NoWhitespace(result[1].value.value[k]) = NoWhitespace(result[1].arg[k])

\* the parts of an assignment line: what follows `set`, its first token and
\* the rest of it
AfterSet(line) == LStrip(From(Strip(line), 3))
NameOf(line) == FirstWord(AfterSet(line))
ValueOf(line) == LStrip(From(AfterSet(line), Len(NameOf(line))))
IndentOf(line) == SubSeq(line, 1, LeadWs(line))

LongestName(ls, block) ==
    CHOOSE n \in { Len(NameOf(ls[block[m] + 1])) : m \in 1..Len(block) } :
        \A m \in 1..Len(block) : Len(NameOf(ls[block[m] + 1])) <= n

\* C9: in every block align_set_commands rewrites, each member becomes
\* indent + 'set ' + name + (maxNameLength - len(name) + 1) spaces + value,
\* maxNameLength being the longest name of the block, so that the values of
\* a block all start in one column.
BlockMembersAligned ==
    Returns("align_set_commands") /\ result[1].value.raised = None
        => \A b \in 1..Len(FindSetBlocks(result[1].arg)) :
              LET block == FindSetBlocks(result[1].arg)[b]
                  line(m) == result[1].arg[block[m] + 1]
                  out(m) == result[1].value.value[block[m] + 1]
              IN  \A m \in 1..Len(block) :
                    /\ out(m) = IndentOf(line(m)) \o <<"s", "e", "t", SP>>
                                   \o NameOf(line(m))
                                   \o Rep(SP, LongestName(result[1].arg, block)
                                                  - Len(NameOf(line(m))) + 1)
                                   \o ValueOf(line(m))
                    /\ Len(out(m)) - Len(ValueOf(line(m)))
                           = Len(out(1)) - Len(ValueOf(line(1)))

\* align_set_commands has rewritten a block whose names differ in length
BlockWithUnequalNamesAligned ==
    /\ Returns("align_set_commands")
    /\ result[1].value.raised = None
    /\ \E b \in 1..Len(FindSetBlocks(result[1].arg)) :
          LET block == FindSetBlocks(result[1].arg)[b]
          IN  \E m, n \in 1..Len(block) :
                Len(NameOf(result[1].arg[block[m] + 1]))
                    < Len(NameOf(result[1].arg[block[n] + 1]))

\* a `set` line with a name and no value
IsNameOnly(line) ==
    /\ StartsWith(Strip(line), <<"s", "e", "t", SP>>)
    /\ NameOf(line) # <<>>
    /\ ValueOf(line) = <<>>

\* the input with a plain command in the place of every name-only line
WithoutNameOnly(ls) ==
    [k \in 1..Len(ls) |-> IF IsNameOnly(ls[k]) THEN <<"a">> ELSE ls[k]]

\* C10: a `set` line with a name and no value is in no alignment block and
\* is emitted unmodified by align_set_commands and by apply_single_space,
\* and the other lines come out as they would were it a non-assignment line.
NameOnlySetLineLeftAlone ==
    /\ Returns("align_set_commands") =>
          /\ result[1].value.raised = None
          /\ \A b \in 1..Len(FindSetBlocks(result[1].arg)) :
                \A m \in 1..Len(FindSetBlocks(result[1].arg)[b]) :
                    ~IsNameOnly(result[1].arg[FindSetBlocks(result[1].arg)[b][m] + 1])
          /\ \A k \in 1..Len(result[1].arg) :
                result[1].value.value[k]
                    = IF IsNameOnly(result[1].arg[k]) THEN result[1].arg[k]
                      ELSE AlignSetCommands(WithoutNameOnly(result[1].arg)).value[k]
    /\ Returns("apply_single_space") =>
          \A k \in 1..Len(result[1].arg) :
              result[1].value[k]
                  = IF IsNameOnly(result[1].arg[k]) THEN result[1].arg[k]
                    ELSE ApplySingleSpace(WithoutNameOnly(result[1].arg))[k]

\* a well-formed assignment: `set`, a name and a value
IsAssignment(line) ==
    /\ StartsWith(Strip(line), <<"s", "e", "t", SP>>)
    /\ NameOf(line) # <<>>
    /\ ValueOf(line) # <<>>

\* C11: apply_single_space applied twice gives what it gives applied once;
\* every well-formed assignment line comes out with exactly one space
\* between name and value, and every other line comes out unchanged.
SingleSpaceIdempotent ==
    Returns("apply_single_space")
        => /\ ApplySingleSpace(result[1].value) = result[1].value
           /\ Len(result[1].value) = Len(result[1].arg)
           /\ \A k \in 1..Len(result[1].arg) :
                 result[1].value[k]
                     = IF IsAssignment(result[1].arg[k])
                       THEN IndentOf(result[1].arg[k]) \o <<"s", "e", "t", SP>>
                                \o NameOf(result[1].arg[k]) \o <<SP>>
                                \o ValueOf(result[1].arg[k])
                       ELSE result[1].arg[k]

\* apply_single_space has rewritten an assignment among other lines
AssignmentNormalized ==
    /\ Returns("apply_single_space")
    /\ \E k \in 1..Len(result[1].arg) :
          IsAssignment(result[1].arg[k]) /\ result[1].value[k] # result[1].arg[k]
    /\ \E k \in 1..Len(result[1].arg) : ~IsAssignment(result[1].arg[k])

(***************************************************************************)
(* ListExpansionEngine                                                     *)
(***************************************************************************)
\* ' '.join(items)
RECURSIVE JoinWithSpaces(_)
JoinWithSpaces(items) ==
    IF items = <<>> THEN <<>>
    ELSE IF Len(items) = 1 THEN items[1]
    ELSE items[1] \o <<SP>> \o JoinWithSpaces(Tail(items))

\* C12: for every list content c, tokenizing c, joining the items with
\* single spaces and tokenizing again gives the same items in the same
\* order; the items of c are c without the separators between them.
TokenizeRejoinTokenize ==
    Returns("_parse_list_items")
        => /\ ParseListItems(JoinWithSpaces(result[1].value)) = result[1].value
           /\ NoWhitespace(JoinWithSpaces(result[1].value))
                  = NoWhitespace(result[1].arg)

\* a content of several items, one of them nested or quoted with a
\* separator inside, has been tokenized and differs from its rejoined items
NestedContentTokenized ==
    /\ Returns("_parse_list_items")
    /\ Len(result[1].value) >= 2
    /\ \E k \in 1..Len(result[1].value) :
          \E p \in 1..Len(result[1].value[k]) : IsSpace(result[1].value[k][p])
    /\ JoinWithSpaces(result[1].value) # result[1].arg

\* the places (1-based, in the trimmed line t) of the first `{` and of the
\* last `}`; 0 when there is none
FirstOpen(t) ==
    IF \E i \in 1..Len(t) : t[i] = LB
    THEN CHOOSE i \in 1..Len(t) : t[i] = LB /\ \A j \in 1..(i - 1) : t[j] # LB
    ELSE 0

LastClose(t) ==
    IF \E i \in 1..Len(t) : t[i] = RB
    THEN CHOOSE i \in 1..Len(t) : t[i] = RB /\ \A j \in (i + 1)..Len(t) : t[j] # RB
    ELSE 0

\* the text between them, trimmed
Between(t) == Strip(SubSeq(t, FirstOpen(t) + 1, LastClose(t) - 1))

\* the criteria of C14
Qualifies(line) ==
    /\ Len(line) >= 80
    /\ ~StartsWith(Strip(line), <<HASH>>)
    /\ FirstOpen(Strip(line)) > 0
    /\ LastClose(Strip(line)) > FirstOpen(Strip(line))
    /\ Between(Strip(line)) # <<>>
    /\ \E p \in 1..Len(Between(Strip(line))) : IsSpace(Between(Strip(line))[p])

\* the number of lines C13 and C14 give a line, and where they start in
\* the output (0-based)
Size(line) ==
    IF Qualifies(line) THEN Len(ParseListItems(Between(Strip(line)))) + 2 ELSE 1

RECURSIVE Offset(_, _)
Offset(ls, k) == IF k = 1 THEN 0 ELSE Offset(ls, k - 1) + Size(ls[k - 1])

Slice(out, ls, k) == SubSeq(out, Offset(ls, k) + 1, Offset(ls, k) + Size(ls[k]))

\* the expansion C13 describes, given the text to write after the `}`
Expansion(line, suffix) ==
    << IndentOf(line) \o SubSeq(Strip(line), 1, FirstOpen(Strip(line))) >>
    \o [k \in 1..Len(ParseListItems(Between(Strip(line)))) |->
           IndentOf(line) \o <<SP, SP>> \o ParseListItems(Between(Strip(line)))[k]]
    \o << IndentOf(line) \o <<RB>> \o suffix >>

\* what follows the last `}` in the line as it is, and in the trimmed line
AfterLast(line) == SubSeq(line, LeadWs(line) + LastClose(Strip(line)) + 1, Len(line))
AfterLastTrimmed(line) == SubSeq(Strip(line), LastClose(Strip(line)) + 1, Len(Strip(line)))

\* C13, as stated: the expansion of a qualifying line is its leading
\* whitespace and the text up to the first `{`, one line per item (leading
\* whitespace, two spaces, the item), then leading whitespace, `}` and the
\* text after the last `}` verbatim: number of items + 2 lines.
ExpansionKeepsSuffixVerbatim ==
    Returns("expand_long_lists")
        => \A k \in 1..Len(result[1].arg) :
              Qualifies(result[1].arg[k])
                  => Slice(result[1].value, result[1].arg, k)
                         = Expansion(result[1].arg[k], AfterLast(result[1].arg[k]))

\* C13, amended: as above, the last line being leading whitespace, `}` and
\* the text after the last `}` without the whitespace that ends the line.
ExpansionKeepsTrimmedSuffix ==
    Returns("expand_long_lists")
        => \A k \in 1..Len(result[1].arg) :
              Qualifies(result[1].arg[k])
                  => Slice(result[1].value, result[1].arg, k)
                         = Expansion(result[1].arg[k],
                                     AfterLastTrimmed(result[1].arg[k]))

\* an indented line with text after its list has been expanded
IndentedListExpanded ==
    /\ Returns("expand_long_lists")
    /\ \E k \in 1..Len(result[1].arg) :
          /\ Qualifies(result[1].arg[k])
          /\ IndentOf(result[1].arg[k]) # <<>>
          /\ AfterLastTrimmed(result[1].arg[k]) # <<>>
          /\ Size(result[1].arg[k]) > 4

ExpansionIdempotent ==
    Returns("expand_long_lists")
        => ExpandLongLists(result[1].value) = result[1].value

(***************************************************************************)
(* C16: comment lines through the rewrite passes                           *)
(***************************************************************************)
IsComment(line) == StartsWith(Strip(line), <<HASH>>)

\* the call of the named pass in this run, if it was made
CallsOf(name) == { k \in 1..Len(passes) : passes[k].name = name }

\* where line k of the input stands in the output (1-based): after the
\* lines C13 and C14 give the lines before it when the expansion pass ran
PlaceInOutput(k) ==
    IF CallsOf("expand_long_lists") = {} THEN k
    ELSE Offset(passes[CHOOSE c \in CallsOf("expand_long_lists") : TRUE].arg, k) + 1

\* C16: every line whose first non-blank character is `#` is in the output
\* of the rewrite passes as it was in the input and at the place of the
\* input line, under every combination of the options.
CommentLinesPassThrough ==
    output_file # Nothing
        => \A k \in 1..Len(lines) :
              IsComment(lines[k])
                  => /\ PlaceInOutput(k) <= Len(output_file[1])
                     /\ output_file[1][PlaceInOutput(k)] = lines[k]

\* an indented comment that reads as an assignment and a long comment that
\* reads as a list have been written after an expanded list
CommentsWrittenAfterExpansion ==
    /\ output_file # Nothing
    /\ \E k \in 1..Len(lines) :
          /\ IsComment(lines[k])
          /\ LeadWs(lines[k]) > 0
          /\ PlaceInOutput(k) > k
    /\ \E k \in 1..Len(lines) :
          IsComment(lines[k]) /\ Len(lines[k]) >= LIST_LENGTH_THRESHOLD


(***************************************************************************)
(* C17: concurrent invocations                                             *)
(***************************************************************************)
\* what an invocation run alone returns: the diagnostics, and the output
\* when there are none
Alone(ls, options) ==
    [errors |-> Some(Validate(ls)),
     formatted |-> IF Validate(ls) = <<>> THEN Some(FormatLines(ls, options))
                   ELSE Nothing]

\* a step of invocation t leaves the validator of every other one as it was
TouchesOwnValidator(t) ==
    threads'[t] # threads[t]
        => \A u \in Threads \ {t} :
              threads[u].syntax_validator # 0
                  => /\ threads[u].syntax_validator \in DOMAIN validators'
                     /\ validators'[threads[u].syntax_validator]
                            = validators[threads[u].syntax_validator]

\* C17: two invocations running concurrently, each with lines and options
\* of its own, return the diagnostics and the output they return when run
\* alone, and no step of one changes the stack or the diagnostics list of
\* the other's validator.
InvocationsIndependent ==
    /\ [](\A t \in Threads :
             threads[t].pc = "done"
                 => /\ threads[t].errors = Alone(threads[t].lines, threads[t].options).errors
                    /\ threads[t].formatted
                           = Alone(threads[t].lines, threads[t].options).formatted)
    /\ [][\A t \in Threads : TouchesOwnValidator(t)]_vars

\* both invocations are in the middle of validating, each with frames of
\* its own on its stack
BothValidatorsMidScan ==
    /\ \A t \in Threads :
          /\ threads[t].pc = "scan"
          /\ threads[t].i > 0
          /\ validators[threads[t].syntax_validator].stack # <<>>
    /\ threads[1].lines # threads[2].lines
    /\ validators[threads[1].syntax_validator].errors
           # validators[threads[2].syntax_validator].errors


(***************************************************************************)
(* C18: one formatting worker per window                                   *)
(***************************************************************************)
\* the workers started whose result has not been handled
InFlight == { w \in 1..Len(workers) : workers[w].handled = 0 }

Started(w) == w <= Len(workers)

HandledOnce(w) == w <= Len(workers) /\ workers[w].handled = 1

HandlerRuns ==
    /\ Len(workers') = Len(workers)
    /\ \E w \in 1..Len(workers) : workers'[w].handled = workers[w].handled + 1

\* C18: at most one worker of the window is in flight at any time;
\* format_file invoked while operation_in_progress is true starts no worker
\* and changes nothing; the result of every started worker is handled by
\* exactly one run of _on_formatting_complete; and only a run of that
\* handler clears the flag.
OneWorkerInFlight ==
    /\ [](Cardinality(InFlight) <= 1)
    /\ [][operation_in_progress
            => /\ Len(workers') = Len(workers)
               /\ (FormatFile => UNCHANGED ui_vars)]_vars
    /\ [](\A w \in 1..Len(workers) : workers[w].handled <= 1)
    /\ \A w \in 1..MaxWorkers : [](Started(w) => <>HandledOnce(w))
    /\ [][operation_in_progress /\ ~operation_in_progress' => HandlerRuns]_vars

\* a second worker is running after the result of the first was handled
SecondWorkerAfterCompletion ==
    /\ Len(workers) = 2
    /\ workers[1].handled = 1
    /\ workers[2].state = "running"
    /\ operation_in_progress
    /\ format_button


(***************************************************************************)
(* C19: a closing delimiter that does not match                            *)
(***************************************************************************)
\* the validator is about to read a closing delimiter: a `}` outside a
\* string or the `"` that ends one
ReadsCloser ==
    /\ threads[1].pc = "chars"
    /\ threads[1].i < Len(CurrentLine.line)
    /\ \/ CurrentLine.line[threads[1].i + 1] = RB /\ ~threads[1].in_string
       \/ CurrentLine.line[threads[1].i + 1] = QUOTE /\ threads[1].in_string

\* the opening delimiter a closing one pairs with
Opener(char) == IF char = RB THEN LB ELSE QUOTE

\* the closer about to be read does not match the top of the stack
Mismatches ==
    \/ validators[1].stack = <<>>
    \/ validators[1].stack[Len(validators[1].stack)].char
           # Opener(CurrentLine.line[threads[1].i + 1])

IsUnexpectedClosing(error) ==
    error.message[1] \in
        { "Unexpected closing",
          "Unexpected closing brace, expected closing quote from line",
          "Unexpected closing quote, expected closing brace from line" }

\* the number of the physical line on which the character about to be read
\* stands
PhysicalLine ==
    TaggedLines(threads[1].lines, 1)[threads[1].k + 1][threads[1].i + 1].at

\* the step emits one 'Unexpected closing' diagnostic at line n and leaves
\* the stack as it was
ReportsAndRestores(n) ==
    /\ validators'[1].stack = validators[1].stack
    /\ Len(validators'[1].errors) = Len(validators[1].errors) + 1
    /\ SubSeq(validators'[1].errors, 1, Len(validators[1].errors))
           = validators[1].errors
    /\ IsUnexpectedClosing(validators'[1].errors[Len(validators'[1].errors)])
    /\ validators'[1].errors[Len(validators'[1].errors)].line_number = n

\* C19, as stated: a closing delimiter that does not match the top frame
\* (or meets an empty stack) gives exactly one 'Unexpected closing'
\* diagnostic at the line the closer stands on, and the stack after it is
\* the stack before it.
MismatchReportedWhereItStands ==
    [][ReadsCloser /\ Mismatches => ReportsAndRestores(PhysicalLine)]_vars

\* C19, amended: as above, the diagnostic carrying the number of the first
\* physical line of the continuation-folded line the closer stands on.
MismatchReportedAtFoldedLine ==
    [][ReadsCloser /\ Mismatches => ReportsAndRestores(CurrentLine.line_num)]_vars

\* a `}` has just been read on top of a quote left open by an earlier
\* line: it is reported and the quote is still on the stack
MismatchRestored ==
    /\ threads[1].pc = "chars"
    /\ threads[1].i > 0
    /\ CurrentLine.line[threads[1].i] = RB
    /\ validators[1].stack # <<>>
    /\ validators[1].stack[Len(validators[1].stack)].char = QUOTE
    /\ validators[1].stack[Len(validators[1].stack)].line_number < CurrentLine.line_num
    /\ validators[1].errors # <<>>
    /\ validators[1].errors[Len(validators[1].errors)].message[1]
           = "Unexpected closing brace, expected closing quote from line"
    /\ validators[1].errors[Len(validators[1].errors)].line_number
           = CurrentLine.line_num


(***************************************************************************)
(* C20: the frames left at the end of the input                            *)
(***************************************************************************)
\* the diagnostic of a frame left on the stack
UnmatchedOpening(frame) ==
    IF frame.char = LB
    THEN SyntaxError(frame.line_number, <<"Unmatched opening brace">>, "brace")
    ELSE SyntaxError(frame.line_number, <<"Unmatched opening quote">>, "quote")

IsUnmatchedOpening(error) ==
    error.message[1] \in { "Unmatched opening brace", "Unmatched opening quote" }

\* the step on which validate leaves its loop over the lines and returns
InputEnds == threads[1].pc = "lines" /\ threads'[1].pc = "returned"

\* C20: at the end of the input validate adds to the diagnostics of the
\* scan one 'Unmatched opening' diagnostic for each frame on the stack, of
\* the frame's kind and line, in the order the frames were pushed, and
\* returns them; no diagnostic of the scan is an 'Unmatched opening', and
\* the stack at the end is empty exactly when none is returned.
RemainingFramesReportedInOrder ==
    /\ [][InputEnds
            => /\ validators'[1].errors
                      = validators[1].errors
                            \o [k \in 1..Len(validators[1].stack) |->
                                   UnmatchedOpening(validators[1].stack[k])]
               /\ threads'[1].errors = Some(validators'[1].errors)
               /\ validators'[1].stack = validators[1].stack]_vars
    /\ [](threads[1].pc # "returned"
            => \A k \in 1..Len(validators[1].errors) :
                  ~IsUnmatchedOpening(validators[1].errors[k]))
    /\ [](threads[1].pc = "returned"
            => (validators[1].stack = <<>>
                   <=> \A k \in 1..Len(threads[1].errors[1]) :
                          ~IsUnmatchedOpening(threads[1].errors[1][k])))

\* validate has returned with a brace and a quote of different lines left
\* on the stack and a diagnostic of the scan before theirs
FramesLeftAfterScanDiagnostic ==
    /\ threads[1].pc = "returned"
    /\ Len(validators[1].stack) >= 2
    /\ validators[1].stack[1].char # validators[1].stack[2].char
    /\ validators[1].stack[1].line_number # validators[1].stack[2].line_number
    /\ Len(threads[1].errors[1]) > Len(validators[1].stack)
    /\ IsUnexpectedClosing(threads[1].errors[1][1])


(***************************************************************************)
(* C21: line continuations                                                 *)
(***************************************************************************)
\* the number of backslashes a text ends in
RECURSIVE TrailingBackslashes(_)
TrailingBackslashes(t) ==
    IF t # <<>> /\ t[Len(t)] = BS THEN TrailingBackslashes(DropLast(t)) + 1 ELSE 0

\* trimmed of trailing whitespace, the line ends in a backslash that no
\* backslash before it escapes
EndsInUnescapedBackslash(line) == TrailingBackslashes(RStrip(line)) % 2 = 1

\* the physical lines k..Len(ls) with every line that ends in an unescaped
\* backslash joined to the next one, under the number of the first
RECURSIVE Folded(_, _)
Folded(ls, k) ==
    IF k > Len(ls) THEN <<>>
    ELSE IF k < Len(ls) /\ EndsInUnescapedBackslash(ls[k])
    THEN << [line_num |-> k,
             line |-> DropLast(RStrip(ls[k])) \o Folded(ls, k + 1)[1].line] >>
             \o Tail(Folded(ls, k + 1))
    ELSE << [line_num |-> k, line |-> ls[k]] >> \o Folded(ls, k + 1)

\* C21: a physical line is joined with the next one exactly when, trimmed
\* of trailing whitespace, it ends in an unescaped backslash, the backslash
\* being dropped and the joining repeated; the joined line carries the
\* number of its first physical line and the lines after it keep theirs.
JoinsAtUnescapedBackslash ==
    Returns("_handle_line_continuations")
        => result[1].value = Folded(result[1].arg, 1)


(***************************************************************************)
(* C22: where the stack changes                                            *)
(***************************************************************************)
\* the character at position p (1-based) follows a backslash that is not
\* itself escaped
RECURSIVE Escaped(_, _)
Escaped(line, p) == p > 1 /\ line[p - 1] = BS /\ ~Escaped(line, p - 1)

\* position p lies after an opening quote of the line and not after its
\* closing quote
InsideQuotes(line, p) ==
    Cardinality({ q \in 1..(p - 1) : line[q] = QUOTE /\ ~Escaped(line, q) }) % 2 = 1

\* C22: the stack of the validator changes only on reading an unescaped
\* `"`, or an unescaped `{` or `}` outside a quoted region of the line; an
\* escaped delimiter and a brace between an opening quote and its closing
\* quote never push or pop a frame.
StackChangesOnlyAtLiveDelimiters ==
    [][validators'[1].stack # validators[1].stack
         => /\ threads[1].pc = "chars"
            /\ threads[1].i < Len(CurrentLine.line)
            /\ ~Escaped(CurrentLine.line, threads[1].i + 1)
            /\ \/ CurrentLine.line[threads[1].i + 1] = QUOTE
               \/ /\ CurrentLine.line[threads[1].i + 1] \in {LB, RB}
                  /\ ~InsideQuotes(CurrentLine.line, threads[1].i + 1)]_vars

\* an escaped `{` and a `}` inside quotes have been read and the stack is
\* empty, with no diagnostic
EscapedAndQuotedBracesPassed ==
    /\ threads[1].lines = << <<BS, LB>>, <<QUOTE, RB, QUOTE>> >>
    /\ threads[1].pc = "chars"
    /\ threads[1].k = 1
    /\ threads[1].i = 3
    /\ validators[1] = EmptyValidator


(***************************************************************************)
(* C23: the depth carried from a written line                              *)
(***************************************************************************)
\* the unescaped occurrences of a brace outside the quotes of the line
LiveBraces(line, brace) ==
    Cardinality({ p \in 1..Len(line) :
                    /\ line[p] = brace
                    /\ ~Escaped(line, p)
                    /\ ~InsideQuotes(line, p) })

\* the depth C23 carries from a line written at the given level
CarriedDepth(line, level) ==
    level + LiveBraces(line, LB) - LiveBraces(line, RB)
          + (IF StartsWith(line, <<RB>>) THEN 1 ELSE 0)

\* C23: after every written line of apply_indentation, whether or not the
\* line started inside a multi-line string, the depth carried to the next
\* line is the level the line was written at, plus its unescaped `{`
\* outside quotes, minus its unescaped `}` outside quotes, plus 1 when the
\* trimmed line starts with `}`.
CarriedDepthCountsBraces ==
    Returns("apply_indentation")
        => \A k \in 1..Len(result[1].arg) :
              IndentSteps(result[1].arg, result[1].strict_mode)[k].written
                  => IndentSteps(result[1].arg, result[1].strict_mode)[k].current_level
                         = CarriedDepth(Strip(result[1].arg[k]),
                               IndentSteps(result[1].arg,
                                           result[1].strict_mode)[k].line_level)


\* the unescaped quotes of a line
LiveQuotes(line) ==
    Cardinality({ p \in 1..Len(line) : line[p] = QUOTE /\ ~Escaped(line, p) })

\* the multi-line-string flag at the start of line k: the written lines
\* before it hold an odd number of unescaped quotes
RECURSIVE StartsInString(_, _)
StartsInString(ls, k) ==
    IF k = 1 THEN FALSE
    ELSE IF IsCode(ls[k - 1]) /\ LiveQuotes(Strip(ls[k - 1])) % 2 = 1
    THEN ~StartsInString(ls, k - 1)
    ELSE StartsInString(ls, k - 1)

\* C23, amended: after a written line that starts outside a multi-line
\* string the depth carried is as stated; after one that starts inside a
\* multi-line string it is the level the line was written at, whatever
\* braces the line holds.
CarriedDepthCountsBracesOutsideStrings ==
    Returns("apply_indentation")
        => \A k \in 1..Len(result[1].arg) :
              IndentSteps(result[1].arg, result[1].strict_mode)[k].written
                  => IndentSteps(result[1].arg, result[1].strict_mode)[k].current_level
                         = IF StartsInString(result[1].arg, k)
                           THEN IndentSteps(result[1].arg,
                                            result[1].strict_mode)[k].line_level
                           ELSE CarriedDepth(Strip(result[1].arg[k]),
                                    IndentSteps(result[1].arg,
                                                result[1].strict_mode)[k].line_level)

\* apply_indentation has returned on lines of which one starting with `}`
\* was written outside a string and one holding a `{` inside one
BracesInsideAndOutsideStrings ==
    /\ Returns("apply_indentation")
    /\ \E k \in 1..Len(result[1].arg) :
          /\ ~StartsInString(result[1].arg, k)
          /\ StartsWith(Strip(result[1].arg[k]), <<RB>>)
    /\ \E k \in 1..Len(result[1].arg) :
          /\ StartsInString(result[1].arg, k)
          /\ LiveBraces(Strip(result[1].arg[k]), LB) > 0


Linked(ls, j, k) ==
    /\ j < k
    /\ IsSetCommand(Strip(ls[j])) /\ IsSetCommand(Strip(ls[k]))
    /\ LeadWs(ls[j]) = LeadWs(ls[k])
    /\ \A m \in (j + 1)..(k - 1) : Strip(ls[m]) = <<>>

\* line k belongs to a run of at least two members
InRun(ls, k) ==
    \E j \in 1..Len(ls) : Linked(ls, j, k) \/ Linked(ls, k, j)

\* a block (0-based indices) is one maximal run of at least two members
IsMaximalRun(ls, block) ==
    /\ Len(block) >= 2
    /\ \A n \in 1..(Len(block) - 1) : Linked(ls, block[n] + 1, block[n + 1] + 1)
    /\ ~\E j \in 1..Len(ls) : Linked(ls, j, block[1] + 1)
    /\ ~\E j \in 1..Len(ls) : Linked(ls, block[Len(block)] + 1, j)

InSomeBlock(blocks, k) ==
    \E b \in 1..Len(blocks) : \E n \in 1..Len(blocks[b]) : blocks[b][n] + 1 = k

\* C25: the blocks align_set_commands rewrites are exactly the maximal runs
\* of at least two assignment lines at one indent, blank lines apart; a line
\* in no such run comes back as it was.
OnlyRunsOfTwoRewritten ==
    Returns("align_set_commands")
        => /\ \A b \in 1..Len(FindSetBlocks(result[1].arg)) :
                 IsMaximalRun(result[1].arg, FindSetBlocks(result[1].arg)[b])
           /\ \A k \in 1..Len(result[1].arg) :
                 InRun(result[1].arg, k)
                     => InSomeBlock(FindSetBlocks(result[1].arg), k)
           /\ result[1].value.raised = None
                 => \A k \in 1..Len(result[1].arg) :
                       ~InRun(result[1].arg, k)
                           => result[1].value.value[k] = result[1].arg[k]

\* align_set_commands has returned lines of which the last two, one run at
\* the end of the input, were rewritten and an assignment line at another
\* indent before them was not
LastRunFlushedSingleLeft ==
    /\ Returns("align_set_commands")
    /\ result[1].value.raised = None
    /\ Len(result[1].arg) = 3
    /\ IsSetCommand(Strip(result[1].arg[1])) /\ ~InRun(result[1].arg, 1)
    /\ Linked(result[1].arg, 2, 3)
    /\ result[1].value.value[2] # result[1].arg[2]


\* the first whitespace-delimited token of a line
RECURSIVE FirstToken(_)
FirstToken(line) ==
    IF line = <<>> THEN <<>>
    ELSE IF line[1] \in { SP, TAB }
    THEN IF FirstToken(Tail(line)) = <<>> THEN <<>> ELSE FirstToken(Tail(line))
    ELSE <<line[1]>> \o
             (IF Len(line) > 1 /\ line[2] \notin { SP, TAB }
              THEN FirstToken(Tail(line)) ELSE <<>>)

\* C26: a line is an assignment statement exactly when its first
\* whitespace-delimited token is `set`, a space or a tab after it alike.
AssignmentIffFirstTokenIsSet ==
    Returns("_is_set_command")
        => (result[1].value <=> FirstToken(result[1].arg) = <<"s", "e", "t">>)


(***************************************************************************)
(* C27: concurrent /format requests                                        *)
(***************************************************************************)
\* C27: every request whose upload fails validation is answered with
\* exactly the diagnostics of its own upload, never with those of another
\* request and never with a 500.
OwnDiagnosticsReturned ==
    \A r \in Requests :
        (threads[r].pc = "done" /\ Validate(threads[r].upload) # <<>>)
            => /\ threads[r].response[1].status = 200
               /\ threads[r].response[1].content
                      = ErrorLines(Validate(threads[r].upload))


(***************************************************************************)
(* C28: the Format button while a worker is in flight                      *)
(***************************************************************************)
\* C28: whenever operation_in_progress is true the Format button is
\* disabled.
ButtonDisabledWhileInProgress == operation_in_progress => ~format_button


(***************************************************************************)
(* C29: the formatted lines validated again                                *)
(***************************************************************************)
\* C29: the lines _format_lines returns for lines validate accepts are
\* accepted by validate, under every combination of the options.
FormattingPreservesValidity ==
    (/\ Returns("_format_lines")
     /\ Validate(result[1].arg.lines) = <<>>
     /\ result[1].value.raised = None)
        => Validate(result[1].value.value) = <<>>


(***************************************************************************)
(* C30: the in_string flag and the top of the stack                        *)
(***************************************************************************)
\* a diagnostic of a closing quote that found no quote frame to close
UnexpectedClosingQuote(error) ==
    /\ error.error_type = "quote"
    /\ error.message[1] \in
           { "Unexpected closing",
             "Unexpected closing quote, expected closing brace from line" }

\* C30: while _process_line has in_string set, the top frame of the stack
\* is a quote frame pushed on the line being scanned; no diagnostic of an
\* unexpected closing quote is ever recorded.
InStringOverOwnQuote ==
    /\ (threads[1].pc = "chars" /\ threads[1].in_string)
           => /\ validators[1].stack # <<>>
              /\ validators[1].stack[Len(validators[1].stack)].char = QUOTE
              /\ validators[1].stack[Len(validators[1].stack)].line_number
                     = CurrentLine.line_num
    /\ \A n \in 1..Len(validators[1].errors) :
           ~UnexpectedClosingQuote(validators[1].errors[n])

\* the scan is inside a string opened on the line it reads, over a quote
\* frame an earlier line left open
InStringOverEarlierOpenQuote ==
    /\ threads[1].pc = "chars"
    /\ threads[1].in_string
    /\ Len(validators[1].stack) >= 2
    /\ validators[1].stack[1].char = QUOTE
    /\ validators[1].stack[1].line_number < CurrentLine.line_num


====
